---------------------------- MODULE Spec2Model ----------------------------
(***************************************************************************)
(* Back-office of an events/photography studio: the contract amount        *)
(* derivation (calendar's computeAmounts, dashboard's contractAmounts),    *)
(* the period filter, the monthly aggregator, the financial metrics, the   *)
(* calendar's day bucketing and the budget envelope ledger.                *)
(*                                                                         *)
(* Money is a JavaScript number in the source.  The model keeps money in   *)
(* QUARTERS of a currency unit (an integer q stands for q/4), so that      *)
(* Math.round and Math.ceil act on fractional amounts as they do in the    *)
(* source; every multiple of 0.25 is an exact double, and on this grid     *)
(* the double results of the expressions below equal the exact ones.       *)
(***************************************************************************)
EXTENDS Integers, Sequences, FiniteSets, Bags, TLC

VARIABLES
    contract,   \* the contract record handed to the amount derivation
    twin,       \* the same record with another stored totalAmount
    calcA,      \* computeAmounts(contract), NONE until computed
    calcB,      \* computeAmounts(twin)
    dashA,      \* contractAmounts(contract) of the dashboard
    dashB,      \* contractAmounts(twin)
    monA,       \* computeMonthlyData's inner contractAmounts(contract)
    monB,       \* computeMonthlyData's inner contractAmounts(twin)
    now,        \* the current instant (new Date()), minutes since 2023-01-01T00:00Z
    tz,         \* the browser's offset of local time from UTC, in minutes
    period,     \* the dashboard's period selector {type, start, end}
    pDate,      \* the date string handed to isInPeriod
    inPeriodD,  \* isInPeriod(pDate) of the dashboard, NONE until evaluated
    inPeriodM,  \* isInPeriod(pDate) of computeMonthlyData, NONE until evaluated
    contracts,  \* the dashboard's contracts state (the loaded documents)
    investmentInstallments, \* the dashboard's installments state
    contractsCollection, \* the documents of the store's contracts collection
    events,       \* the calendar's events state (the expanded contracts)
    calLoading,   \* the calendar's loading flag
    calLoads,     \* the calendar loads in flight
    current,      \* the month whose day cells the calendar shows, {y, m}
    filterMonth,  \* the month the calendar filters events by, 0..11
    filterYear,   \* the year the calendar filters events by
    filterPhone,  \* the text of the phone filter input
    calLoaded,    \* history: how the calendar load that ended last ended
    calDeletes,   \* the deleteDoc calls of deleteEvent in flight, by contract id
    calTimers,    \* the pending setTimeout(() => load(), 100) callbacks
    published,    \* history: the contract ids of the 'contractDeleted' events dispatched
    budget_envelopes,    \* the store's budget_envelopes collection, by document id
    budget_transactions, \* the store's budget_transactions collection
    nextTxnId,    \* the id the store gives the next transaction
    budgetData,   \* the planner's snapshot of the ledger
    loading,      \* the planner's loading flag
    budgetLoads,  \* the bag of loadBudgetData calls waiting for a read
    budgetOps,    \* the expense handlers waiting for their second write
    expenseLog,   \* history: what the add and the delete of every expense did
    page,         \* the photo-sharing page: route parameters, state and effects
    dashLoad      \* the dashboard's load effect: its loading flag and the read awaited

amountVars == <<contract, twin, calcA, calcB, dashA, dashB, monA, monB>>
envVars == <<now, tz>>
periodVars == <<period, pDate, inPeriodD, inPeriodM>>

dataVars == <<contracts, investmentInstallments>>

calVars == <<contractsCollection, events, calLoading, calLoads, current, filterMonth,
             filterYear, filterPhone, calLoaded, calDeletes, calTimers, published>>

budgetVars == <<budget_envelopes, budget_transactions, nextTxnId, budgetData, loading, budgetLoads, budgetOps, expenseLog>>

\* everything but the budget planner
otherVars == <<amountVars, envVars, periodVars, dataVars, calVars, page, dashLoad>>

vars == <<amountVars, envVars, periodVars, dataVars, calVars, budgetVars, page, dashLoad>>

\* undefined: an absent optional field is the empty tuple, a present number n is <<n>>
\* (an absent and an empty string or array are both <<>>: the source coerces both alike)
NULL == <<>>
Num(n) == <<n>>

\* the value of a result not computed yet
NONE == [computed |-> FALSE]

(***************************************************************************)
(* JavaScript helpers                                                      *)
(***************************************************************************)
Max(a, b) == IF a >= b THEN a ELSE b

\* n currency units, in quarters
Units(n) == 4 * n

\* Math.round on quarters: floor(x + 0.5)
MathRound(q) == ((q + 2) \div 4) * 4

\* Math.ceil of num/den (den > 0), as currency units in quarters
MathCeilOf(num, den) == (0 - ((0 - num) \div den)) * 4

Digits == {"0", "1", "2", "3", "4", "5", "6", "7", "8", "9"}

DigitVal(ch) ==
    CASE ch = "0" -> 0 [] ch = "1" -> 1 [] ch = "2" -> 2 [] ch = "3" -> 3
      [] ch = "4" -> 4 [] ch = "5" -> 5 [] ch = "6" -> 6 [] ch = "7" -> 7
      [] ch = "8" -> 8 [] ch = "9" -> 9

\* s.replace(/[^0-9]/g, '') on a string given as a sequence of characters
StripNonDigits(s) == SelectSeq(s, LAMBDA ch : ch \in Digits)

\* Number(digits) for a string of decimal digits; Number('') is 0
RECURSIVE NumberOfDigits(_)
NumberOfDigits(s) ==
    IF s = <<>> THEN 0
    ELSE 10 * NumberOfDigits(SubSeq(s, 1, Len(s) - 1)) + DigitVal(s[Len(s)])

\* Number(String(it?.price || '').replace(/[^0-9]/g, '')), in quarters
ParsePrice(p) == Units(NumberOfDigits(StripNonDigits(IF p = NULL THEN <<>> ELSE p)))

\* Number(it?.quantity ?? 1)
ServiceQty(it) == IF it.quantity = NULL THEN 1 ELSE it.quantity[1]

\* Number(it.quantity || 1)
StoreQty(it) == IF it.quantity = NULL \/ it.quantity = Num(0) THEN 1 ELSE it.quantity[1]

\* Number(x || 0)
NumOrZero(x) == IF x = NULL THEN 0 ELSE x[1]

RECURSIVE SumServices(_)
SumServices(list) ==
    IF list = <<>> THEN 0
    ELSE SumServices(SubSeq(list, 1, Len(list) - 1))
         + ParsePrice(list[Len(list)].price) * ServiceQty(list[Len(list)])

RECURSIVE SumStore(_)
SumStore(list) ==
    IF list = <<>> THEN 0
    ELSE SumStore(SubSeq(list, 1, Len(list) - 1))
         + list[Len(list)].price * StoreQty(list[Len(list)])

\* the service-line list: explicit services if non-empty, else the snapshot's cart items
SvcList(c) == IF Len(c.services) > 0 THEN c.services
              ELSE c.cartItems

StoreList(c) == c.storeItems

(***************************************************************************)
(* Amount Deriver, calendar copy                                           *)
(***************************************************************************)
\* mutant: the deposit always taken as ceil(services x 0.2 + storeTotal x 0.5)
computeAmounts_NoTravelInDeposit(c) ==
    LET servicesTotalRaw == SumServices(SvcList(c))
        storeTotal == SumStore(StoreList(c))
        travel == NumOrZero(c.travelFee)
        totalFromDoc == NumOrZero(c.totalAmount)
        servicesEstimated == IF servicesTotalRaw > 0 THEN servicesTotalRaw
                             ELSE Max(0, totalFromDoc - storeTotal - travel)
        totalAmount == MathRound(servicesEstimated + storeTotal + travel)
        depositAmount == MathCeilOf(2 * servicesEstimated + 5 * storeTotal, 40)
        remainingAmount == Max(0, MathRound(totalAmount - depositAmount))
    IN [servicesTotal |-> servicesEstimated, storeTotal |-> storeTotal,
        travel |-> travel, totalAmount |-> totalAmount,
        depositAmount |-> depositAmount, remainingAmount |-> remainingAmount]

computeAmounts(c) ==
    LET servicesTotalRaw == SumServices(SvcList(c))
        storeTotal == SumStore(StoreList(c))
        travel == NumOrZero(c.travelFee)
        totalFromDoc == NumOrZero(c.totalAmount)
        servicesEstimated == IF servicesTotalRaw > 0 THEN servicesTotalRaw
                             ELSE Max(0, totalFromDoc - storeTotal - travel)
        totalAmount == MathRound(servicesEstimated + storeTotal + travel)
        depositAmount == IF servicesEstimated <= 0 /\ storeTotal > 0
                         THEN MathCeilOf(storeTotal + travel, 8)
                         ELSE MathCeilOf(2 * servicesEstimated + 5 * storeTotal, 40)
        remainingAmount == Max(0, MathRound(totalAmount - depositAmount))
    IN [servicesTotal |-> servicesEstimated, storeTotal |-> storeTotal,
        travel |-> travel, totalAmount |-> totalAmount,
        depositAmount |-> depositAmount, remainingAmount |-> remainingAmount]

(***************************************************************************)
(* Amount Deriver, dashboard copy                                          *)
(***************************************************************************)
\* mutant: the services taken as the larger of the line sum and the stored remainder
contractAmounts_LargerOfBoth(c) ==
    LET servicesTotalRaw == SumServices(SvcList(c))
        storeTotal == SumStore(StoreList(c))
        travel == NumOrZero(c.travelFee)
        totalFromDoc == NumOrZero(c.totalAmount)
        services == Max(servicesTotalRaw, Max(0, totalFromDoc - storeTotal - travel))
        total == MathRound(services + storeTotal + travel)
    IN [services |-> services, storeTotal |-> storeTotal, travel |-> travel, total |-> total]

contractAmounts(c) ==
    LET servicesTotalRaw == SumServices(SvcList(c))
        storeTotal == SumStore(StoreList(c))
        travel == NumOrZero(c.travelFee)
        totalFromDoc == NumOrZero(c.totalAmount)
        services == IF servicesTotalRaw > 0 THEN servicesTotalRaw
                    ELSE Max(0, totalFromDoc - storeTotal - travel)
        total == MathRound(services + storeTotal + travel)
    IN [services |-> services, storeTotal |-> storeTotal, travel |-> travel, total |-> total]

(***************************************************************************)
(* Amount Deriver, computeMonthlyData's inner copy                         *)
(***************************************************************************)
\* mutant: the final total left unrounded
MD_contractAmounts_NoRound(c) ==
    LET servicesTotalRaw == SumServices(SvcList(c))
        storeTotal == SumStore(StoreList(c))
        travel == NumOrZero(c.travelFee)
        totalFromDoc == NumOrZero(c.totalAmount)
        services == IF servicesTotalRaw > 0 THEN servicesTotalRaw
                    ELSE Max(0, totalFromDoc - storeTotal - travel)
        total == services + storeTotal + travel
    IN [services |-> services, storeTotal |-> storeTotal, travel |-> travel, total |-> total]

MD_contractAmounts(c) ==
    LET servicesTotalRaw == SumServices(SvcList(c))
        storeTotal == SumStore(StoreList(c))
        travel == NumOrZero(c.travelFee)
        totalFromDoc == NumOrZero(c.totalAmount)
        services == IF servicesTotalRaw > 0 THEN servicesTotalRaw
                    ELSE Max(0, totalFromDoc - storeTotal - travel)
        total == MathRound(services + storeTotal + travel)
    IN [services |-> services, storeTotal |-> storeTotal, travel |-> travel, total |-> total]

(***************************************************************************)
(* Dates.  An instant (Date.getTime()) is counted in minutes since          *)
(* 2023-01-01T00:00Z; every instant of the model is a whole minute, so the  *)
(* local end of day 23:59:59.999 is compared as 23:59.  A date string is    *)
(*   [kind |-> "none"]                 absent or ''                          *)
(*   [kind |-> "bad"]                  a non-empty string no Date parses     *)
(*   [kind |-> "date", y, m, d]        'YYYY-MM-DD', parsed as UTC midnight  *)
(*   [kind |-> "iso", y, m, d, h]      'YYYY-MM-DDTHH:00:00.000Z' (the       *)
(*                                     createdAt written by toISOString())   *)
(***************************************************************************)
NoDate == [kind |-> "none"]
BadDate == [kind |-> "bad"]
DateStr(y, m, d) == [kind |-> "date", y |-> y, m |-> m, d |-> d, h |-> 0]
IsoStr(y, m, d, h) == [kind |-> "iso", y |-> y, m |-> m, d |-> d, h |-> h]

IsLeap(y) == (y % 4 = 0 /\ y % 100 # 0) \/ y % 400 = 0
DaysInYear(y) == IF IsLeap(y) THEN 366 ELSE 365
DaysInMonth(y, m) ==
    IF m = 2 THEN (IF IsLeap(y) THEN 29 ELSE 28)
    ELSE IF m \in {4, 6, 9, 11} THEN 30 ELSE 31

RECURSIVE DaysBeforeYear(_)
DaysBeforeYear(y) ==
    IF y = 2023 THEN 0
    ELSE IF y > 2023 THEN DaysBeforeYear(y - 1) + DaysInYear(y - 1)
    ELSE DaysBeforeYear(y + 1) - DaysInYear(y)

RECURSIVE DaysBeforeMonth(_, _)
DaysBeforeMonth(y, m) ==
    IF m = 1 THEN 0 ELSE DaysBeforeMonth(y, m - 1) + DaysInMonth(y, m - 1)

\* the calendar of the years the model's dates fall in, tabulated
CalendarYears == 2021..2027
YearStart == [y \in CalendarYears |-> DaysBeforeYear(y)]
MonthStart == [y \in CalendarYears |-> [m \in 1..12 |-> DaysBeforeMonth(y, m)]]

DayNumber(y, m, d) == YearStart[y] + MonthStart[y][m] + (d - 1)

\* new Date(dateStr): [valid, t]; an invalid Date has getTime() NaN
NewDate(ds) ==
    IF ds.kind \in {"none", "bad"} THEN [valid |-> FALSE, t |-> 0]
    ELSE [valid |-> TRUE, t |-> DayNumber(ds.y, ds.m, ds.d) * 1440 + ds.h * 60]

\* the local calendar day an instant falls in, as a day number
LocalDay(t, zone) == (t + zone) \div 1440

YearOfDay(day) ==
    CHOOSE y \in CalendarYears :
        DaysBeforeYear(y) <= day /\ day < DaysBeforeYear(y) + DaysInYear(y)

MonthOfDay(day) ==
    LET y == YearOfDay(day)
        rest == day - DaysBeforeYear(y)
    IN CHOOSE m \in 1..12 : DaysBeforeMonth(y, m) <= rest
                             /\ rest < DaysBeforeMonth(y, m) + DaysInMonth(y, m)

\* year and month (1..12) of every day of the calendar
DayTable ==
    [day \in DaysBeforeYear(2021)..(DaysBeforeYear(2027) + DaysInYear(2027) - 1) |->
        [y |-> YearOfDay(day), m |-> MonthOfDay(day)]]

\* Date.getFullYear(), local
GetFullYear(t, zone) == DayTable[LocalDay(t, zone)].y

\* Date.getMonth(), local, 0..11
GetMonth(t, zone) == DayTable[LocalDay(t, zone)].m - 1

\* ed.setHours(23, 59, 59, 999): the end of the local day the instant falls in
SetHoursEndOfDay(t, zone) == LocalDay(t, zone) * 1440 - zone + 1439

\* today.setHours(0, 0, 0, 0): the start of the local day the instant falls in
SetHoursStartOfDay(t, zone) == LocalDay(t, zone) * 1440 - zone

\* mutant: period type 'all' answered before the date is looked at
isInPeriod_AllFirst(dateStr, p, n, zone) ==
    IF p.type = "all" THEN TRUE
    ELSE IF dateStr.kind = "none" THEN FALSE
    ELSE LET d == NewDate(dateStr) IN
    IF ~d.valid THEN FALSE
    ELSE IF p.type = "year" THEN GetFullYear(d.t, zone) = GetFullYear(n, zone)
    ELSE IF p.type = "month"
         THEN /\ GetFullYear(d.t, zone) = GetFullYear(n, zone)
              /\ GetMonth(d.t, zone) = GetMonth(n, zone)
    ELSE IF p.type = "custom"
         THEN IF p.start.kind # "none" /\ d.t < NewDate(p.start).t THEN FALSE
              ELSE IF p.end.kind # "none"
                      /\ d.t > SetHoursEndOfDay(NewDate(p.end).t, zone) THEN FALSE
              ELSE TRUE
    ELSE TRUE

(***************************************************************************)
(* Period Filter, dashboard copy.  p is the period, n the current instant,  *)
(* zone the local offset.                                                   *)
(***************************************************************************)
isInPeriod(dateStr, p, n, zone) ==
    IF dateStr.kind = "none" THEN FALSE
    ELSE LET d == NewDate(dateStr) IN
    IF ~d.valid THEN FALSE
    ELSE IF p.type = "all" THEN TRUE
    ELSE IF p.type = "year" THEN GetFullYear(d.t, zone) = GetFullYear(n, zone)
    ELSE IF p.type = "month"
         THEN /\ GetFullYear(d.t, zone) = GetFullYear(n, zone)
              /\ GetMonth(d.t, zone) = GetMonth(n, zone)
    ELSE IF p.type = "custom"
         THEN IF p.start.kind # "none" /\ d.t < NewDate(p.start).t THEN FALSE
              ELSE IF p.end.kind # "none"
                      /\ d.t > SetHoursEndOfDay(NewDate(p.end).t, zone) THEN FALSE
              ELSE TRUE
    ELSE TRUE

(***************************************************************************)
(* Period Filter, computeMonthlyData's inner copy                          *)
(***************************************************************************)
\* mutant: the end of a custom range taken as parsed, not moved to the end of its day
MD_isInPeriod_EndAsParsed(dateStr, p, n, zone) ==
    IF dateStr.kind = "none" THEN FALSE
    ELSE LET d == NewDate(dateStr) IN
    IF ~d.valid THEN FALSE
    ELSE IF p.type = "all" THEN TRUE
    ELSE IF p.type = "year" THEN GetFullYear(d.t, zone) = GetFullYear(n, zone)
    ELSE IF p.type = "month"
         THEN /\ GetFullYear(d.t, zone) = GetFullYear(n, zone)
              /\ GetMonth(d.t, zone) = GetMonth(n, zone)
    ELSE IF p.type = "custom"
         THEN IF p.start.kind # "none" /\ d.t < NewDate(p.start).t THEN FALSE
              ELSE IF p.end.kind # "none" /\ d.t > NewDate(p.end).t THEN FALSE
              ELSE TRUE
    ELSE TRUE

MD_isInPeriod(dateStr, p, n, zone) ==
    IF dateStr.kind = "none" THEN FALSE
    ELSE LET d == NewDate(dateStr) IN
    IF ~d.valid THEN FALSE
    ELSE IF p.type = "all" THEN TRUE
    ELSE IF p.type = "year" THEN GetFullYear(d.t, zone) = GetFullYear(n, zone)
    ELSE IF p.type = "month"
         THEN /\ GetFullYear(d.t, zone) = GetFullYear(n, zone)
              /\ GetMonth(d.t, zone) = GetMonth(n, zone)
    ELSE IF p.type = "custom"
         THEN IF p.start.kind # "none" /\ d.t < NewDate(p.start).t THEN FALSE
              ELSE IF p.end.kind # "none"
                      /\ d.t > SetHoursEndOfDay(NewDate(p.end).t, zone) THEN FALSE
              ELSE TRUE
    ELSE TRUE

(***************************************************************************)
(* The environment: the clock and the browser's time zone                  *)
(***************************************************************************)
TimeZones == {0 - 180, 0, 120}
Noon == NewDate(IsoStr(2024, 1, 31, 12)).t
Clock == { Noon, NewDate(IsoStr(2024, 2, 1, 1)).t }

EnvInit == now \in Clock /\ tz \in TimeZones
EnvIdle == now = 0 /\ tz = 0

(***************************************************************************)
(* The period selector and the dates handed to the filter                  *)
(***************************************************************************)
PeriodTypes == {"all", "year", "month", "custom"}

\* the values of the two <input type="date"> of the custom range
RangeDates == {NoDate, DateStr(2024, 1, 1), DateStr(2024, 1, 31)}

Periods == [type : PeriodTypes, start : RangeDates, end : RangeDates]

FilterDates == { NoDate, BadDate,
                 DateStr(2023, 12, 31), DateStr(2024, 1, 1), DateStr(2024, 1, 31),
                 DateStr(2024, 2, 1), DateStr(2024, 2, 29),
                 IsoStr(2024, 1, 1, 1), IsoStr(2024, 1, 31, 15), IsoStr(2023, 12, 31, 23) }

PeriodIdle ==
    /\ period = [type |-> "month", start |-> NoDate, end |-> NoDate]
    /\ pDate = NoDate
    /\ inPeriodD = NONE /\ inPeriodM = NONE

AmountsIdle ==
    /\ contract = NONE /\ twin = NONE
    /\ calcA = NONE /\ calcB = NONE
    /\ dashA = NONE /\ dashB = NONE
    /\ monA = NONE /\ monB = NONE

DataIdle == contracts = <<>> /\ investmentInstallments = <<>>

CalIdle ==
    /\ contractsCollection = <<>>
    /\ events = <<>> /\ calLoading = FALSE /\ calLoads = 0
    /\ current = [y |-> 0, m |-> 0]
    /\ filterMonth = 0 /\ filterYear = 0 /\ filterPhone = <<>>
    /\ calLoaded = "none" /\ calDeletes = EmptyBag /\ calTimers = 0 /\ published = EmptyBag

\* the photo-sharing page is not open
PageIdle == page = NULL

\* the dashboard's load effect has ended
DashLoadIdle == dashLoad = [loading |-> FALSE, stage |-> "done"]

\* the snapshot before the first load
EmptyBudget ==
    [totalAvailable |-> 0, totalAllocated |-> 0, totalSpent |-> 0,
     envelopes |-> <<>>, transactions |-> <<>>]

BudgetIdle ==
    /\ budget_envelopes = <<>> /\ budget_transactions = <<>> /\ nextTxnId = 0
    /\ budgetData = EmptyBudget /\ loading = FALSE
    /\ budgetLoads = EmptyBag /\ budgetOps = {} /\ expenseLog = <<>>

PeriodInit ==
    /\ EnvInit
    /\ period \in Periods
    /\ pDate \in FilterDates
    /\ inPeriodD = NONE /\ inPeriodM = NONE
    /\ AmountsIdle /\ DataIdle /\ CalIdle /\ BudgetIdle /\ PageIdle /\ DashLoadIdle

\* the dashboard filters a record's date
FilterDashboard ==
    /\ inPeriodD = NONE
    /\ inPeriodD' = [computed |-> TRUE, value |-> isInPeriod(pDate, period, now, tz)]
    /\ UNCHANGED <<period, pDate, inPeriodM, envVars, amountVars, dataVars, calVars, budgetVars, page, dashLoad>>

\* computeMonthlyData filters a record's date
FilterMonthly ==
    /\ inPeriodM = NONE
    /\ inPeriodM' = [computed |-> TRUE, value |-> MD_isInPeriod(pDate, period, now, tz)]
    /\ UNCHANGED <<period, pDate, inPeriodD, envVars, amountVars, dataVars, calVars, budgetVars, page, dashLoad>>

PeriodNext == FilterDashboard \/ FilterMonthly

SpecPeriod == PeriodInit /\ [][PeriodNext]_vars

(***************************************************************************)
(* Contract records handed to the amount derivation.  Prices of service    *)
(* lines are currency-formatted strings (sequences of characters); store   *)
(* prices, the travel fee and the stored total are numbers, in quarters:   *)
(* the add-event form takes any number for totalAmount and travelFee.      *)
(***************************************************************************)
MaxSvc == 2
MaxStore == 1

Str_R1000 == <<"R", "$", " ", "1", ".", "0", "0", "0">>
Str_2 == <<"2">>
Str_1c5 == <<"1", ",", "5">>
Str_R == <<"R", "$">>

SvcItems == { [price |-> Str_R1000, quantity |-> Num(1)],
              [price |-> Str_2, quantity |-> NULL],
              [price |-> Str_1c5, quantity |-> Num(2)],
              [price |-> Str_R, quantity |-> Num(1)],
              [price |-> Str_2, quantity |-> Num(0)] }

StoreItems == { [price |-> 1, quantity |-> NULL],
                [price |-> 200, quantity |-> Num(2)],
                [price |-> 6, quantity |-> Num(0)] }

SeqsUpTo(S, n) == UNION { [1..k -> S] : k \in 0..n }

Fees == {NULL, Num(0 - 20), Num(1), Num(400)}
StoredTotals == {NULL, Num(0 - 40), Num(1), Num(400)}
TwinTotals == {NULL, Num(3), Num(400)}

AmountContracts ==
    [ services   : SeqsUpTo(SvcItems, MaxSvc),
      cartItems  : {NULL, <<[price |-> Str_2, quantity |-> NULL]>>},
      storeItems : SeqsUpTo(StoreItems, MaxStore),
      travelFee  : Fees,
      totalAmount : StoredTotals ]

AmountsInit ==
    /\ contract \in AmountContracts
    /\ twin \in { [contract EXCEPT !.totalAmount = t] : t \in TwinTotals }
    /\ calcA = NONE /\ calcB = NONE
    /\ dashA = NONE /\ dashB = NONE
    /\ monA = NONE /\ monB = NONE
    /\ EnvIdle /\ PeriodIdle /\ DataIdle /\ CalIdle /\ BudgetIdle /\ PageIdle /\ DashLoadIdle

\* the calendar's contract detail computes the amounts of the selected event
ComputeAmounts ==
    /\ calcA = NONE
    /\ calcA' = computeAmounts(contract)
    /\ calcB' = computeAmounts(twin)
    /\ UNCHANGED <<contract, twin, dashA, dashB, monA, monB, envVars, periodVars, dataVars, calVars, budgetVars, page, dashLoad>>

\* the dashboard's metrics memo derives the amounts, directly and in computeMonthlyData
DashboardAmounts ==
    /\ dashA = NONE
    /\ dashA' = contractAmounts(contract)
    /\ dashB' = contractAmounts(twin)
    /\ monA' = MD_contractAmounts(contract)
    /\ monB' = MD_contractAmounts(twin)
    /\ UNCHANGED <<contract, twin, calcA, calcB, envVars, periodVars, dataVars, calVars, budgetVars, page, dashLoad>>

AmountsNext == ComputeAmounts \/ DashboardAmounts

SpecAmounts == AmountsInit /\ [][AmountsNext]_vars

(***************************************************************************)
(* The copies side by side: one render derives the amounts of a contract   *)
(* with each copy of the derivation and filters a date with each copy of   *)
(* the period filter.  Either the contract ranges over the records with    *)
(* the filter's inputs at rest, or the filter's inputs range with one      *)
(* contract.                                                                *)
(***************************************************************************)
FullContract ==
    [services |-> <<[price |-> Str_R1000, quantity |-> Num(1)]>>,
     cartItems |-> NULL,
     storeItems |-> <<[price |-> 200, quantity |-> Num(2)]>>,
     travelFee |-> Num(400),
     totalAmount |-> Num(1)]

CopiesInit ==
    /\ \/ /\ contract \in AmountContracts
          /\ EnvIdle /\ PeriodIdle
       \/ /\ contract = FullContract
          /\ EnvInit
          /\ period \in Periods
          /\ pDate \in FilterDates
          /\ inPeriodD = NONE /\ inPeriodM = NONE
    /\ twin = contract
    /\ calcA = NONE /\ calcB = NONE
    /\ dashA = NONE /\ dashB = NONE
    /\ monA = NONE /\ monB = NONE
    /\ DataIdle /\ CalIdle /\ BudgetIdle /\ PageIdle /\ DashLoadIdle

CopiesNext == ComputeAmounts \/ DashboardAmounts \/ FilterDashboard \/ FilterMonthly

SpecCopies == CopiesInit /\ [][CopiesNext]_vars

(***************************************************************************)
(* Monthly Aggregator                                                      *)
(***************************************************************************)
\* c.contractDate || c.eventDate || c.createdAt || ''
EffectiveDate(c) ==
    IF c.contractDate.kind # "none" THEN c.contractDate
    ELSE IF c.eventDate.kind # "none" THEN c.eventDate
    ELSE c.createdAt

\* the 12 rows of the current year; row i + 1 has key i (the month label is left out)
MD_EmptyMonths ==
    [i \in 1..12 |-> [key |-> i - 1, income |-> 0, expenses |-> 0, profit |-> 0,
                      earned |-> 0, forecast |-> 0]]

\* mutant: income counted for contracts not completed only
MD_ContractStep_IncomeIfOpen(months, c, p, n, zone) ==
    LET dateStr == EffectiveDate(c) IN
    IF dateStr.kind = "none" \/ ~MD_isInPeriod(dateStr, p, n, zone) THEN months
    ELSE LET d == NewDate(dateStr) IN
    IF ~d.valid THEN months
    ELSE LET m == GetMonth(d.t, zone)
             amount == MD_contractAmounts(c).total
             today == SetHoursStartOfDay(n, zone)
             isFuture == d.t >= today
         IN [months EXCEPT
                ![m + 1].income = IF c.eventCompleted THEN @ ELSE @ + amount,
                ![m + 1].earned = IF c.eventCompleted THEN @ + amount ELSE @,
                ![m + 1].profit = IF c.eventCompleted THEN @ + amount ELSE @,
                ![m + 1].forecast = IF ~c.eventCompleted /\ isFuture THEN @ + amount ELSE @]

\* the body of the loop over the contracts
MD_ContractStep(months, c, p, n, zone) ==
    LET dateStr == EffectiveDate(c) IN
    IF dateStr.kind = "none" \/ ~MD_isInPeriod(dateStr, p, n, zone) THEN months
    ELSE LET d == NewDate(dateStr) IN
    IF ~d.valid THEN months
    ELSE LET m == GetMonth(d.t, zone)
             amount == MD_contractAmounts(c).total
             today == SetHoursStartOfDay(n, zone)
             isFuture == d.t >= today
         IN [months EXCEPT
                ![m + 1].income = @ + amount,
                ![m + 1].earned = IF c.eventCompleted THEN @ + amount ELSE @,
                ![m + 1].profit = IF c.eventCompleted THEN @ + amount ELSE @,
                ![m + 1].forecast = IF ~c.eventCompleted /\ isFuture THEN @ + amount ELSE @]

\* mutant: an installment counted only when due in the year the rows are built for
MD_InstallmentStep_CurrentYearOnly(months, inst, p, n, zone) ==
    LET dateStr == inst.dueDate IN
    IF dateStr.kind = "none" \/ ~MD_isInPeriod(dateStr, p, n, zone) THEN months
    ELSE LET d == NewDate(dateStr) IN
    IF ~d.valid \/ GetFullYear(d.t, zone) # GetFullYear(n, zone) THEN months
    ELSE LET m == GetMonth(d.t, zone)
             amount == NumOrZero(inst.amount)
         IN [months EXCEPT ![m + 1].expenses = @ + amount,
                           ![m + 1].profit = @ - amount]

\* the body of the loop over the installments
MD_InstallmentStep(months, inst, p, n, zone) ==
    LET dateStr == inst.dueDate IN
    IF dateStr.kind = "none" \/ ~MD_isInPeriod(dateStr, p, n, zone) THEN months
    ELSE LET d == NewDate(dateStr) IN
    IF ~d.valid THEN months
    ELSE LET m == GetMonth(d.t, zone)
             amount == NumOrZero(inst.amount)
         IN [months EXCEPT ![m + 1].expenses = @ + amount,
                           ![m + 1].profit = @ - amount]

RECURSIVE MD_ContractLoop(_, _, _, _, _)
MD_ContractLoop(months, cs, p, n, zone) ==
    IF cs = <<>> THEN months
    ELSE MD_ContractLoop(MD_ContractStep(months, Head(cs), p, n, zone), Tail(cs), p, n, zone)

RECURSIVE MD_InstallmentLoop(_, _, _, _, _)
MD_InstallmentLoop(months, insts, p, n, zone) ==
    IF insts = <<>> THEN months
    ELSE MD_InstallmentLoop(MD_InstallmentStep(months, Head(insts), p, n, zone),
                            Tail(insts), p, n, zone)

computeMonthlyData(cs, insts, p, n, zone) ==
    MD_InstallmentLoop(MD_ContractLoop(MD_EmptyMonths, cs, p, n, zone), insts, p, n, zone)

(***************************************************************************)
(* Financial Metrics Reducer                                               *)
(***************************************************************************)
MaxInvoices == 10
MaxTopClients == 5

filteredContractsOf(cs, p, n, zone) ==
    SelectSeq(cs, LAMBDA c : isInPeriod(EffectiveDate(c), p, n, zone))

\* c.clientName || 'Cliente'
ClientOf(c) == IF c.clientName = "" THEN "Cliente" ELSE c.clientName

\* mutant: the client's entry replaced by the amount of its latest contract
ClientMapAdd_LastAmount(map, client, amount) ==
    IF \E i \in DOMAIN map : map[i].clientName = client
    THEN [i \in DOMAIN map |->
            IF map[i].clientName = client
            THEN [map[i] EXCEPT !.totalValue = amount] ELSE map[i]]
    ELSE Append(map, [clientName |-> client, totalValue |-> amount])

\* clientMap.set(client, (clientMap.get(client) || 0) + amount), keys in insertion order
ClientMapAdd(map, client, amount) ==
    IF \E i \in DOMAIN map : map[i].clientName = client
    THEN [i \in DOMAIN map |->
            IF map[i].clientName = client
            THEN [map[i] EXCEPT !.totalValue = @ + amount] ELSE map[i]]
    ELSE Append(map, [clientName |-> client, totalValue |-> amount])

\* the body of the loop over filteredContracts
MetricsContractStep(acc, c, n, zone) ==
    LET amount == contractAmounts(c).total
        dateStr == EffectiveDate(c)
        d == NewDate(dateStr)
        today == SetHoursStartOfDay(n, zone)
        isFuture == dateStr.kind # "none" /\ d.valid /\ d.t >= today
        a1 == [acc EXCEPT !.totalRevenue = @ + amount]
        a2 == IF c.eventCompleted
              THEN [a1 EXCEPT !.completedRevenue = @ + amount]
              ELSE IF isFuture
              THEN [a1 EXCEPT !.futureRevenue = @ + amount,
                              !.invoices = Append(@, [id |-> c.id,
                                                      clientName |-> ClientOf(c),
                                                      dueDate |-> dateStr,
                                                      amount |-> amount,
                                                      status |-> "Pendiente"])]
              ELSE a1
    IN [a2 EXCEPT !.clientMap = ClientMapAdd(@, ClientOf(c), amount)]

RECURSIVE MetricsContractLoop(_, _, _, _)
MetricsContractLoop(acc, cs, n, zone) ==
    IF cs = <<>> THEN acc
    ELSE MetricsContractLoop(MetricsContractStep(acc, Head(cs), n, zone), Tail(cs), n, zone)

\* mutant: the invoices left in the order of the contracts
InsertByDueDate_AtEnd(sorted, x) == Append(sorted, x)

\* Array.prototype.sort is stable: x goes after every element that does not sort after it
RECURSIVE InsertByDueDate(_, _)
InsertByDueDate(sorted, x) ==
    IF sorted = <<>> THEN <<x>>
    ELSE IF NewDate(Head(sorted).dueDate).t - NewDate(x.dueDate).t > 0
         THEN <<x>> \o sorted
         ELSE <<Head(sorted)>> \o InsertByDueDate(Tail(sorted), x)

RECURSIVE SortByDueDate(_)
SortByDueDate(list) ==
    IF list = <<>> THEN <<>>
    ELSE InsertByDueDate(SortByDueDate(SubSeq(list, 1, Len(list) - 1)), list[Len(list)])

RECURSIVE InsertByValueDesc(_, _)
InsertByValueDesc(sorted, x) ==
    IF sorted = <<>> THEN <<x>>
    ELSE IF x.totalValue - Head(sorted).totalValue > 0
         THEN <<x>> \o sorted
         ELSE <<Head(sorted)>> \o InsertByValueDesc(Tail(sorted), x)

RECURSIVE SortByValueDesc(_)
SortByValueDesc(list) ==
    IF list = <<>> THEN <<>>
    ELSE InsertByValueDesc(SortByValueDesc(SubSeq(list, 1, Len(list) - 1)), list[Len(list)])

\* list.slice(0, k)
Slice(list, k) == SubSeq(list, 1, IF Len(list) < k THEN Len(list) ELSE k)

\* mutant: every installment with a parsable due date counted, whatever the period
RECURSIVE ExpensesLoop_AnyPeriod(_, _, _, _, _)
ExpensesLoop_AnyPeriod(expenses, insts, p, n, zone) ==
    IF insts = <<>> THEN expenses
    ELSE LET inst == Head(insts)
             dateStr == inst.dueDate
             counted == /\ dateStr.kind # "none"
                        /\ NewDate(dateStr).valid
         IN ExpensesLoop_AnyPeriod(IF counted THEN expenses + NumOrZero(inst.amount)
                                   ELSE expenses, Tail(insts), p, n, zone)

RECURSIVE ExpensesLoop(_, _, _, _, _)
ExpensesLoop(expenses, insts, p, n, zone) ==
    IF insts = <<>> THEN expenses
    ELSE LET inst == Head(insts)
             dateStr == inst.dueDate
             counted == /\ dateStr.kind # "none"
                        /\ isInPeriod(dateStr, p, n, zone)
                        /\ NewDate(dateStr).valid
         IN ExpensesLoop(IF counted THEN expenses + NumOrZero(inst.amount) ELSE expenses,
                         Tail(insts), p, n, zone)

\* mutant: the quotient taken whatever completedRevenue is
profitMarginOf_NoZeroCheck(netProfit, completedRevenue) ==
    [num |-> netProfit * 100, den |-> completedRevenue]

\* completedRevenue > 0 ? ((netProfit / completedRevenue) * 100) : 0, the quotient kept
\* as the fraction num/den
profitMarginOf(netProfit, completedRevenue) ==
    IF completedRevenue > 0
    THEN [num |-> netProfit * 100, den |-> completedRevenue]
    ELSE [num |-> 0, den |-> 1]

\* the metrics memo, of filteredContracts fc (expensesByCategory left out)
metricsOf(fc, insts, p, n, zone) ==
    LET acc == MetricsContractLoop([totalRevenue |-> 0, completedRevenue |-> 0,
                                    futureRevenue |-> 0, invoices |-> <<>>,
                                    clientMap |-> <<>>], fc, n, zone)
        invoices == Slice(SortByDueDate(acc.invoices), MaxInvoices)
        topClients == Slice(SortByValueDesc(acc.clientMap), MaxTopClients)
        expenses == ExpensesLoop(0, insts, p, n, zone)
        netProfit == acc.completedRevenue - expenses
        monthlyData == computeMonthlyData(fc, insts, p, n, zone)
    IN [currentMonthRevenue |-> acc.completedRevenue,
        currentMonthExpenses |-> expenses,
        currentMonthNetProfit |-> netProfit,
        profitMargin |-> profitMarginOf(netProfit, acc.completedRevenue),
        currentCashBalance |-> acc.completedRevenue,
        monthlyData |-> monthlyData,
        outstandingInvoices |-> invoices,
        topClients |-> topClients]

\* the two memos of the dashboard, functions of its state
filteredContracts == filteredContractsOf(contracts, period, now, tz)
metrics == metricsOf(filteredContracts, investmentInstallments, period, now, tz)

(***************************************************************************)
(* The dashboard: loaded documents and the period selector                 *)
(***************************************************************************)
MaxContracts == 2
MaxInstallments == 1

DatedTriples ==
    { <<DateStr(2024, 1, 31), DateStr(2024, 2, 1), NoDate>>,
      <<NoDate, DateStr(2024, 2, 29), IsoStr(2023, 12, 31, 23)>>,
      <<NoDate, NoDate, IsoStr(2024, 1, 1, 1)>> }

MissingTriple == <<NoDate, NoDate, NoDate>>
UnparsableTriple == <<BadDate, DateStr(2024, 1, 1), NoDate>>

\* the client and the amount fields of a sample document go with its dates
SampleContract(tr, completed) ==
    LET who == IF tr[1].kind # "none" \/ tr = MissingTriple THEN "Ana"
               ELSE IF tr[2].kind = "none" THEN "Bia" ELSE ""
    IN [id |-> 0, clientName |-> who,
        contractDate |-> tr[1], eventDate |-> tr[2], createdAt |-> tr[3],
        eventCompleted |-> completed,
        services |-> IF who = "" THEN <<[price |-> Str_2, quantity |-> NULL]>> ELSE <<>>,
        cartItems |-> <<>>,
        storeItems |-> IF who = "Bia" THEN <<[price |-> 6, quantity |-> Num(0)]>> ELSE <<>>,
        travelFee |-> IF who = "" THEN Num(1) ELSE NULL,
        totalAmount |-> IF who = "Ana" THEN Num(400) ELSE NULL]

\* a contract of 1 January 2024, not completed, whose travel fee and stored total were
\* typed below 0 into the add-event form (-5 and -10): its derived total is -5
DiscountedContract ==
    [id |-> 0, clientName |-> "Ana",
     contractDate |-> DateStr(2024, 1, 1), eventDate |-> NoDate, createdAt |-> NoDate,
     eventCompleted |-> FALSE,
     services |-> <<>>, cartItems |-> <<>>, storeItems |-> <<>>,
     travelFee |-> Num(0 - 20), totalAmount |-> Num(0 - 40)]

SampleContracts ==
    { SampleContract(tr, completed) : tr \in DatedTriples, completed \in BOOLEAN }
    \cup { SampleContract(MissingTriple, FALSE), SampleContract(UnparsableTriple, TRUE) }
    \cup { DiscountedContract }

\* documents carry their own ids
WithIds(list) == [i \in DOMAIN list |-> [list[i] EXCEPT !.id = i]]

SampleInstallments ==
    { [dueDate |-> DateStr(2024, 1, 31), amount |-> Num(400)],
      [dueDate |-> BadDate, amount |-> Num(160)] }

DashRangeStarts == {NoDate, DateStr(2024, 1, 1)}
DashRangeEnds == {NoDate, DateStr(2024, 1, 31)}

DashboardInit ==
    /\ now = Noon /\ tz \in TimeZones
    /\ contracts \in { WithIds(l) : l \in SeqsUpTo(SampleContracts, MaxContracts) }
    /\ investmentInstallments \in SeqsUpTo(SampleInstallments, MaxInstallments)
    /\ period = [type |-> "month", start |-> NoDate, end |-> NoDate]
    /\ pDate = NoDate /\ inPeriodD = NONE /\ inPeriodM = NONE
    /\ AmountsIdle /\ CalIdle /\ BudgetIdle /\ PageIdle /\ DashLoadIdle

\* onChange of the period select: setPeriod({ type })
SetPeriodType(t) ==
    /\ period' = [type |-> t, start |-> NoDate, end |-> NoDate]
    /\ UNCHANGED <<pDate, inPeriodD, inPeriodM, envVars, amountVars, dataVars, calVars, budgetVars, page, dashLoad>>

\* onChange of the start date input: setPeriod(p => ({ ...p, start }))
SetPeriodStart(d) ==
    /\ period.type = "custom"
    /\ period' = [period EXCEPT !.start = d]
    /\ UNCHANGED <<pDate, inPeriodD, inPeriodM, envVars, amountVars, dataVars, calVars, budgetVars, page, dashLoad>>

\* onChange of the end date input: setPeriod(p => ({ ...p, end }))
SetPeriodEnd(d) ==
    /\ period.type = "custom"
    /\ period' = [period EXCEPT !.end = d]
    /\ UNCHANGED <<pDate, inPeriodD, inPeriodM, envVars, amountVars, dataVars, calVars, budgetVars, page, dashLoad>>

DashboardNext ==
    \/ \E t \in PeriodTypes : SetPeriodType(t)
    \/ \E d \in DashRangeStarts : SetPeriodStart(d)
    \/ \E d \in DashRangeEnds : SetPeriodEnd(d)

SpecDashboard == DashboardInit /\ [][DashboardNext]_vars

(***************************************************************************)
(* The dashboard on a long contracts collection: more open contracts than  *)
(* the invoice list holds and more clients than the client list holds       *)
(***************************************************************************)
MaxBook == 16

\* effective dates around the clock's day: the day before, the day itself as a date and
\* as a timestamp, the days after, a later month and the next year
BookDates ==
    << DateStr(2024, 1, 30), DateStr(2024, 1, 31), IsoStr(2024, 1, 31, 15),
       DateStr(2024, 2, 1), IsoStr(2024, 2, 1, 1), DateStr(2024, 2, 10),
       DateStr(2024, 3, 5), DateStr(2025, 1, 2) >>

\* six named clients and contracts without a client name
BookClients == <<"Ana", "Bia", "Caio", "Duda", "Eva", "Fabi", "">>

\* the i-th document of a collection written with stride a and offset b: dates, clients,
\* amounts and completion cycle with different periods, so that the documents come in
\* no order of date or value, dates and client totals repeat, and one in five is completed
BookContract(i, a, b) ==
    LET date == BookDates[((a * i + b) % Len(BookDates)) + 1]
        asEvent == i % 3 = 0
    IN [id |-> i, clientName |-> BookClients[((i + b) % Len(BookClients)) + 1],
        contractDate |-> IF asEvent THEN NoDate ELSE date,
        eventDate |-> IF asEvent THEN date ELSE NoDate,
        createdAt |-> IsoStr(2024, 1, 1, 1),
        eventCompleted |-> (i + a + b) % 5 = 0,
        services |-> <<>>, cartItems |-> <<>>, storeItems |-> <<>>,
        travelFee |-> NULL,
        totalAmount |-> Num(Units(100 + 50 * ((i * i + a) % 5)))]

Book(n, a, b) == [i \in 1..n |-> BookContract(i, a, b)]

\* installments due in January of two years and in March
BookInstallments ==
    << [dueDate |-> DateStr(2024, 1, 31), amount |-> Num(Units(100))],
       [dueDate |-> DateStr(2025, 1, 2), amount |-> Num(Units(40))],
       [dueDate |-> DateStr(2024, 3, 5), amount |-> Num(Units(10))] >>

BookStrides == {1, 3, 5}
BookOffsets == {0, 1, 2}

BookInit ==
    /\ now = Noon /\ tz \in TimeZones
    /\ contracts \in { Book(n, a, b) : n \in 0..MaxBook, a \in BookStrides, b \in BookOffsets }
    /\ investmentInstallments \in { <<>>, BookInstallments }
    /\ period = [type |-> "month", start |-> NoDate, end |-> NoDate]
    /\ pDate = NoDate /\ inPeriodD = NONE /\ inPeriodM = NONE
    /\ AmountsIdle /\ CalIdle /\ BudgetIdle /\ PageIdle /\ DashLoadIdle

SpecBook == BookInit /\ [][DashboardNext]_vars

(***************************************************************************)
(* The admin calendar.  Names, phones and free text are sequences of        *)
(* characters; "-" stands for the dash of the ' — ' separator.  An event     *)
(* time is the list of the ':'-separated parts of the string, each part      *)
(* Num(n) when Number(part) is finite and NULL when it is NaN; the empty     *)
(* list is the absent or empty string.                                       *)
(***************************************************************************)

\* lexicographic comparison of two sequences of integers: -1, 0 or 1
RECURSIVE CompareSeq(_, _)
CompareSeq(s, t) ==
    IF s = <<>> /\ t = <<>> THEN 0
    ELSE IF s = <<>> THEN 0 - 1
    ELSE IF t = <<>> THEN 1
    ELSE IF Head(s) < Head(t) THEN 0 - 1
    ELSE IF Head(s) > Head(t) THEN 1
    ELSE CompareSeq(Tail(s), Tail(t))

\* the primary collation weight of a character: white space, then punctuation,
\* then the letters, a letter and its capital sharing one weight
PrimaryWeight(ch) ==
    CASE ch = " " -> 1
      [] ch = "-" -> 2
      [] ch \in {"a", "A"} -> 3
      [] ch \in {"b", "B"} -> 4

\* the case weight of a character: a small letter sorts before its capital
CaseWeight(ch) == IF ch \in {"A", "B"} THEN 1 ELSE 0

\* a.localeCompare(b): the strings are compared by their primary weights first, and
\* only when these are all equal by the case of their letters
localeCompare(a, b) ==
    LET p == CompareSeq([i \in DOMAIN a |-> PrimaryWeight(a[i])],
                        [i \in DOMAIN b |-> PrimaryWeight(b[i])])
    IN IF p # 0 THEN p
       ELSE CompareSeq([i \in DOMAIN a |-> CaseWeight(a[i])],
                       [i \in DOMAIN b |-> CaseWeight(b[i])])

\* Number.isFinite(x) ? x : 0, for a part of a split time (an absent part is undefined)
FiniteOrZero(parts, i) ==
    IF i <= Len(parts) /\ parts[i] # NULL THEN parts[i][1] ELSE 0

toMinutes(t) ==
    IF t = <<>> THEN 0
    ELSE FiniteOrZero(t, 1) * 60 + FiniteOrZero(t, 2)

\* mutant: no tie-break by name
compareEvents_TimeOnly(a, b) ==
    LET ta == toMinutes(a.eventTime)
        tb == toMinutes(b.eventTime)
    IN ta - tb

\* the comparator of list.sort: negative when a sorts before b
compareEvents(a, b) ==
    LET ta == toMinutes(a.eventTime)
        tb == toMinutes(b.eventTime)
    IN IF ta # tb THEN ta - tb
       ELSE localeCompare(a.clientName, b.clientName)

RECURSIVE InsertEvent(_, _)
InsertEvent(sorted, x) ==
    IF sorted = <<>> THEN <<x>>
    ELSE IF compareEvents(Head(sorted), x) > 0
         THEN <<x>> \o sorted
         ELSE <<Head(sorted)>> \o InsertEvent(Tail(sorted), x)

RECURSIVE SortEvents(_)
SortEvents(list) ==
    IF list = <<>> THEN <<>>
    ELSE InsertEvent(SortEvents(SubSeq(list, 1, Len(list) - 1)), list[Len(list)])

\* toLocalDate(s): null unless the three '-'-separated parts are non-zero numbers
toLocalDate(s) ==
    IF s.kind = "date" /\ s.y # 0 /\ s.m # 0 /\ s.d # 0
    THEN [valid |-> TRUE, year |-> s.y, month |-> s.m - 1, date |-> s.d]
    ELSE [valid |-> FALSE]

\* s.trim()
RECURSIVE Trim(_)
Trim(s) ==
    IF s = <<>> THEN s
    ELSE IF Head(s) = " " THEN Trim(Tail(s))
    ELSE IF s[Len(s)] = " " THEN Trim(SubSeq(s, 1, Len(s) - 1))
    ELSE s

\* hay.includes(needle)
Includes(hay, needle) ==
    /\ Len(needle) <= Len(hay)
    /\ \E i \in 0 .. (Len(hay) - Len(needle)) : SubSeq(hay, i + 1, i + Len(needle)) = needle

\* the status filter has no control: it keeps its initial value
filterStatus == "all"

phoneMatch(ev, fPhone) ==
    IF Trim(fPhone) # <<>>
    THEN LET phoneSource == IF ev.phone # <<>> THEN ev.phone ELSE ev.fsPhone
         IN Includes(StripNonDigits(phoneSource), StripNonDigits(fPhone))
    ELSE TRUE

filteredEventsOf(evs, fMonth, fYear, fPhone) ==
    SelectSeq(evs, LAMBDA ev :
        LET d == toLocalDate(ev.eventDate)
        IN /\ d.valid
           /\ d.month = fMonth
           /\ d.year = fYear
           /\ filterStatus = "all"
           /\ phoneMatch(ev, fPhone))

\* the keys of the map: the eventDate strings of the filtered events
DayKeysOf(fevs) == { fevs[i].eventDate : i \in { j \in DOMAIN fevs : fevs[j].eventDate # NoDate } }

\* mutant: map.set(key, [ev]), every key keeping its last event only
eventsByDayOf_LastPerDay(fevs) ==
    [k \in DayKeysOf(fevs) |->
        LET of == SelectSeq(fevs, LAMBDA ev : ev.eventDate = k)
        IN SortEvents(<<of[Len(of)]>>)]

\* the map built by eventsByDay: every key with its events in sorted order
eventsByDayOf(fevs) ==
    [k \in DayKeysOf(fevs) |-> SortEvents(SelectSeq(fevs, LAMBDA ev : ev.eventDate = k))]

\* fs[`date_${index}`] and fs[`time_${index}`]: absent when the snapshot has no such field
FsDate(c, index) == IF index + 1 <= Len(c.fsDates) THEN c.fsDates[index + 1] ELSE NoDate
FsTime(c, index) == IF index + 1 <= Len(c.fsTimes) THEN c.fsTimes[index + 1] ELSE <<>>
\* fs[`eventLocation_${index}`]
FsLocation(c, index) ==
    IF index + 1 <= Len(c.fsLocations) THEN c.fsLocations[index + 1] ELSE ""

Separator == <<" ", "-", " ">>

\* mutant: every event of a contract takes the date, time and location of the parent
ExpandedEvent_ParentFields(c, it, index) ==
    [id |-> <<c.id, index>>,
     eventDate |-> c.eventDate,
     eventTime |-> c.eventTime,
     eventLocation |-> c.eventLocation,
     clientName |-> c.clientName \o (IF it.name # <<>> THEN Separator \o it.name ELSE <<>>),
     phone |-> c.phone,
     fsPhone |-> c.fsPhone,
     paymentMethod |-> c.paymentMethod,
     depositPaid |-> c.depositPaid,
     finalPaymentPaid |-> c.finalPaymentPaid,
     eventCompleted |-> c.eventCompleted,
     status |-> c.status]

\* one event per service line: { ...c, id: `${c.id}__${index}`, eventDate, eventTime,
\* eventLocation, clientName }; the id is kept as the pair of its two parts
ExpandedEvent(c, it, index) ==
    [id |-> <<c.id, index>>,
     eventDate |-> IF FsDate(c, index) # NoDate THEN FsDate(c, index) ELSE c.eventDate,
     eventTime |-> IF FsTime(c, index) # <<>> THEN FsTime(c, index) ELSE c.eventTime,
     eventLocation |-> IF FsLocation(c, index) # "" THEN FsLocation(c, index)
                       ELSE c.eventLocation,
     clientName |-> c.clientName \o (IF it.name # <<>> THEN Separator \o it.name ELSE <<>>),
     phone |-> c.phone,
     fsPhone |-> c.fsPhone,
     paymentMethod |-> c.paymentMethod,
     depositPaid |-> c.depositPaid,
     finalPaymentPaid |-> c.finalPaymentPaid,
     eventCompleted |-> c.eventCompleted,
     status |-> c.status]

\* the callback of list.flatMap in load
ExpandContract(c) ==
    LET svc == IF Len(c.services) > 0 THEN c.services ELSE c.cartItems
    IN IF Len(svc) > 0
       THEN [i \in 1 .. Len(svc) |-> ExpandedEvent(c, svc[i], i - 1)]
       ELSE << [id |-> <<c.id>>, eventDate |-> c.eventDate, eventTime |-> c.eventTime,
                eventLocation |-> c.eventLocation,
                clientName |-> c.clientName, phone |-> c.phone, fsPhone |-> c.fsPhone,
                paymentMethod |-> c.paymentMethod, depositPaid |-> c.depositPaid,
                finalPaymentPaid |-> c.finalPaymentPaid,
                eventCompleted |-> c.eventCompleted, status |-> c.status] >>

RECURSIVE FlatMapExpand(_)
FlatMapExpand(list) ==
    IF list = <<>> THEN <<>>
    ELSE ExpandContract(Head(list)) \o FlatMapExpand(Tail(list))

\* the documents of the contracts collection, as the calendar reads them
Time_1430 == <<Num(14), Num(30)>>
Time_0900 == <<Num(9), Num(0)>>
Time_Tarde == <<NULL>>
EventDay == DateStr(2024, 1, 31)
NextDay == DateStr(2024, 2, 1)

CalendarDoc(name, date, time, phone) ==
    [id |-> 0, clientName |-> name, eventDate |-> date, eventTime |-> time,
     eventLocation |-> "",
     phone |-> phone, fsPhone |-> <<>>, services |-> <<>>, cartItems |-> <<>>,
     fsDates |-> <<>>, fsTimes |-> <<>>, fsLocations |-> <<>>,
     paymentMethod |-> "pix", depositPaid |-> FALSE, finalPaymentPaid |-> FALSE,
     eventCompleted |-> FALSE, status |-> ""]

SampleDocs ==
    { [CalendarDoc(<<"B">>, EventDay, Time_1430, <<>>) EXCEPT !.fsPhone = <<"2", "2">>],
      [CalendarDoc(<<"A", "b">>, EventDay, <<>>, <<>>) EXCEPT
           !.services = <<[name |-> <<"b">>], [name |-> <<>>]>>,
           !.fsTimes = <<Time_0900>>,
           !.eventLocation = "Parque",
           !.fsLocations = <<"", "Estudio">>,
           !.depositPaid = TRUE, !.status = "confirmed"],
      [CalendarDoc(<<"a", "b">>, NoDate, Time_Tarde, <<"(", "1", ")", "2">>) EXCEPT
           !.cartItems = <<[name |-> <<>>]>>,
           !.fsDates = <<EventDay>>,
           !.paymentMethod = "card", !.eventCompleted = TRUE, !.finalPaymentPaid = TRUE],
      CalendarDoc(<<"b">>, NextDay, Time_0900, <<>>) }

PhoneFilters == { <<>>, <<" ">>, <<"1", "-", "2">> }

MaxDocs == 2
MaxLoads == 1
NavMonths == 1

\* months counted from year 0, to bound the navigation
MonthIndex(y, m) == y * 12 + m
Today == [y |-> GetFullYear(now, tz), m |-> GetMonth(now, tz)]
NearToday(y, m) ==
    LET dist == MonthIndex(y, m) - MonthIndex(Today.y, Today.m)
    IN dist <= NavMonths /\ 0 - dist <= NavMonths

\* the state after the first render: today's month, no events, nothing loading
CalendarInit ==
    /\ now \in Clock /\ tz = 0
    /\ contractsCollection \in { WithIds(l) : l \in SeqsUpTo(SampleDocs, MaxDocs) }
    /\ events = <<>> /\ calLoading = FALSE /\ calLoads = 0
    /\ calLoaded = "none" /\ calDeletes = EmptyBag /\ calTimers = 0 /\ published = EmptyBag
    /\ current = Today
    /\ filterMonth = Today.m /\ filterYear = Today.y
    /\ filterPhone = <<>>
    /\ AmountsIdle /\ PeriodIdle /\ DataIdle /\ BudgetIdle /\ PageIdle /\ DashLoadIdle

\* load, up to its await: setLoading(true) and the query is sent
LoadStart ==
    /\ calLoads < MaxLoads
    /\ calLoading' = TRUE
    /\ calLoads' = calLoads + 1
    /\ UNCHANGED <<events, calLoaded, current, filterMonth, filterYear, filterPhone>>
    /\ UNCHANGED <<contractsCollection, calDeletes, calTimers, published>>
    /\ UNCHANGED <<envVars, amountVars, periodVars, dataVars, budgetVars, page, dashLoad>>

\* load, after getDocs resolved with the documents of the collection
LoadResolve ==
    /\ calLoads > 0
    /\ events' = FlatMapExpand(contractsCollection)
    /\ calLoading' = FALSE
    /\ calLoads' = calLoads - 1
    /\ calLoaded' = "resolved"
    /\ UNCHANGED <<current, filterMonth, filterYear, filterPhone>>
    /\ UNCHANGED <<contractsCollection, calDeletes, calTimers, published>>
    /\ UNCHANGED <<envVars, amountVars, periodVars, dataVars, budgetVars, page, dashLoad>>

\* mutant: a rejected read leaves the events as they were
LoadReject_KeepsEvents ==
    /\ calLoads > 0
    /\ calLoading' = FALSE
    /\ calLoads' = calLoads - 1
    /\ calLoaded' = "rejected"
    /\ UNCHANGED <<events, current, filterMonth, filterYear, filterPhone>>
    /\ UNCHANGED <<contractsCollection, calDeletes, calTimers, published>>
    /\ UNCHANGED <<envVars, amountVars, periodVars, dataVars, budgetVars, page, dashLoad>>

\* load, after getDocs rejected
LoadReject ==
    /\ calLoads > 0
    /\ events' = <<>>
    /\ calLoading' = FALSE
    /\ calLoads' = calLoads - 1
    /\ calLoaded' = "rejected"
    /\ UNCHANGED <<current, filterMonth, filterYear, filterPhone>>
    /\ UNCHANGED <<contractsCollection, calDeletes, calTimers, published>>
    /\ UNCHANGED <<envVars, amountVars, periodVars, dataVars, budgetVars, page, dashLoad>>

PrevOf(c) == [y |-> IF c.m = 0 THEN c.y - 1 ELSE c.y, m |-> IF c.m = 0 THEN 11 ELSE c.m - 1]
NextOf(c) == [y |-> IF c.m = 11 THEN c.y + 1 ELSE c.y, m |-> IF c.m = 11 THEN 0 ELSE c.m + 1]

goToday ==
    /\ current' = Today
    /\ filterMonth' = Today.m
    /\ filterYear' = Today.y
    /\ UNCHANGED <<events, calLoading, calLoads, calLoaded, filterPhone>>
    /\ UNCHANGED <<contractsCollection, calDeletes, calTimers, published>>
    /\ UNCHANGED <<envVars, amountVars, periodVars, dataVars, budgetVars, page, dashLoad>>

\* the buttons of the mini calendar
prevMonth ==
    /\ NearToday(PrevOf(current).y, PrevOf(current).m)
    /\ current' = PrevOf(current)
    /\ UNCHANGED <<events, calLoading, calLoads, calLoaded, filterMonth, filterYear, filterPhone>>
    /\ UNCHANGED <<contractsCollection, calDeletes, calTimers, published>>
    /\ UNCHANGED <<envVars, amountVars, periodVars, dataVars, budgetVars, page, dashLoad>>

nextMonth ==
    /\ NearToday(NextOf(current).y, NextOf(current).m)
    /\ current' = NextOf(current)
    /\ UNCHANGED <<events, calLoading, calLoads, calLoaded, filterMonth, filterYear, filterPhone>>
    /\ UNCHANGED <<contractsCollection, calDeletes, calTimers, published>>
    /\ UNCHANGED <<envVars, amountVars, periodVars, dataVars, budgetVars, page, dashLoad>>

\* the buttons of the calendar header
HeaderPrev ==
    /\ NearToday(PrevOf(current).y, PrevOf(current).m)
    /\ NearToday(IF filterMonth = 0 THEN filterYear - 1 ELSE filterYear,
                 IF filterMonth = 0 THEN 11 ELSE filterMonth - 1)
    /\ IF filterMonth = 0
       THEN filterYear' = filterYear - 1 /\ filterMonth' = 11
       ELSE filterMonth' = filterMonth - 1 /\ filterYear' = filterYear
    /\ current' = PrevOf(current)
    /\ UNCHANGED <<events, calLoading, calLoads, calLoaded, filterPhone>>
    /\ UNCHANGED <<contractsCollection, calDeletes, calTimers, published>>
    /\ UNCHANGED <<envVars, amountVars, periodVars, dataVars, budgetVars, page, dashLoad>>

HeaderNext ==
    /\ NearToday(NextOf(current).y, NextOf(current).m)
    /\ NearToday(IF filterMonth = 11 THEN filterYear + 1 ELSE filterYear,
                 IF filterMonth = 11 THEN 0 ELSE filterMonth + 1)
    /\ IF filterMonth = 11
       THEN filterYear' = filterYear + 1 /\ filterMonth' = 0
       ELSE filterMonth' = filterMonth + 1 /\ filterYear' = filterYear
    /\ current' = NextOf(current)
    /\ UNCHANGED <<events, calLoading, calLoads, calLoaded, filterPhone>>
    /\ UNCHANGED <<contractsCollection, calDeletes, calTimers, published>>
    /\ UNCHANGED <<envVars, amountVars, periodVars, dataVars, budgetVars, page, dashLoad>>

\* onChange of the phone filter input
SetFilterPhone(p) ==
    /\ filterPhone' = p
    /\ UNCHANGED <<events, calLoading, calLoads, calLoaded, current, filterMonth, filterYear>>
    /\ UNCHANGED <<contractsCollection, calDeletes, calTimers, published>>
    /\ UNCHANGED <<envVars, amountVars, periodVars, dataVars, budgetVars, page, dashLoad>>

CalendarNext ==
    \/ LoadStart
    \/ LoadResolve
    \/ LoadReject
    \/ goToday
    \/ prevMonth
    \/ nextMonth
    \/ HeaderPrev
    \/ HeaderNext
    \/ \E p \in PhoneFilters : SetFilterPhone(p)

SpecCalendar == CalendarInit /\ [][CalendarNext]_vars

(***************************************************************************)
(* Deleting an event of the calendar.  deleteDoc takes effect in the step  *)
(* in which its await resolves; the two events dispatched after it run     *)
(* their listeners synchronously: deleteHandler filters the events and     *)
(* sets the 100 ms timer, updateHandler calls load().  A read returns the  *)
(* collection as it is when the read resolves.                             *)
(***************************************************************************)
MaxDeletes == 1

\* String(ev.id || '').split('__')[0]
BaseId(ev) == ev.id[1]

\* prev.filter(e => base id of e !== baseId)
WithoutContract(evs, baseId) == SelectSeq(evs, LAMBDA e : BaseId(e) # baseId)

\* deleteEvent of a shown event, past its early return (the confirmation declined), to
\* the await of deleteDoc
deleteEvent(ev, confirmed) ==
    /\ confirmed
    /\ BagCardinality(calDeletes) < MaxDeletes
    /\ calDeletes' = calDeletes (+) SetToBag({BaseId(ev)})
    /\ UNCHANGED <<contractsCollection, events, calLoading, calLoads, current, filterMonth,
                   filterYear, filterPhone, calLoaded, calTimers, published>>
    /\ UNCHANGED <<envVars, amountVars, periodVars, dataVars, budgetVars, page, dashLoad>>

\* mutant: the events are left to the reloads
DeleteEventDone_KeepsEvents(baseId, ok) ==
    /\ BagIn(baseId, calDeletes)
    /\ calDeletes' = calDeletes (-) SetToBag({baseId})
    /\ IF ok
       THEN /\ contractsCollection' = SelectSeq(contractsCollection, LAMBDA d : d.id # baseId)
            /\ published' = published (+) SetToBag({baseId})
            /\ calTimers' = calTimers + 1
            /\ calLoading' = TRUE
            /\ calLoads' = calLoads + 1
            /\ UNCHANGED events
       ELSE UNCHANGED <<contractsCollection, events, published, calTimers, calLoading, calLoads>>
    /\ UNCHANGED <<current, filterMonth, filterYear, filterPhone, calLoaded>>
    /\ UNCHANGED <<envVars, amountVars, periodVars, dataVars, budgetVars, page, dashLoad>>

\* deleteEvent, after deleteDoc: resolved (the events of the contract are filtered out,
\* 'contractDeleted' runs deleteHandler, which filters again and sets the timer, and
\* 'contractsUpdated' runs updateHandler, which calls load()), or rejected and caught
DeleteEventDone(baseId, ok) ==
    /\ BagIn(baseId, calDeletes)
    /\ calDeletes' = calDeletes (-) SetToBag({baseId})
    /\ IF ok
       THEN /\ contractsCollection' = SelectSeq(contractsCollection, LAMBDA d : d.id # baseId)
            /\ events' = WithoutContract(WithoutContract(events, baseId), baseId)
            /\ published' = published (+) SetToBag({baseId})
            /\ calTimers' = calTimers + 1
            /\ calLoading' = TRUE
            /\ calLoads' = calLoads + 1
       ELSE UNCHANGED <<contractsCollection, events, published, calTimers, calLoading, calLoads>>
    /\ UNCHANGED <<current, filterMonth, filterYear, filterPhone, calLoaded>>
    /\ UNCHANGED <<envVars, amountVars, periodVars, dataVars, budgetVars, page, dashLoad>>

\* the callback of setTimeout(() => load(), 100): load, up to its await
DelayedLoad ==
    /\ calTimers > 0
    /\ calTimers' = calTimers - 1
    /\ calLoading' = TRUE
    /\ calLoads' = calLoads + 1
    /\ UNCHANGED <<contractsCollection, events, current, filterMonth, filterYear,
                   filterPhone, calLoaded, calDeletes, published>>
    /\ UNCHANGED <<envVars, amountVars, periodVars, dataVars, budgetVars, page, dashLoad>>

CalendarDeleteInit ==
    /\ now = Noon /\ tz = 0
    /\ contractsCollection \in { WithIds(l) : l \in SeqsUpTo(SampleDocs, MaxDocs) }
    /\ events = <<>> /\ calLoading = FALSE /\ calLoads = 0
    /\ calLoaded = "none" /\ calDeletes = EmptyBag /\ calTimers = 0 /\ published = EmptyBag
    /\ current = Today
    /\ filterMonth = Today.m /\ filterYear = Today.y
    /\ filterPhone = <<>>
    /\ AmountsIdle /\ PeriodIdle /\ DataIdle /\ BudgetIdle /\ PageIdle /\ DashLoadIdle

CalendarDeleteNext ==
    \/ LoadStart
    \/ LoadResolve
    \/ LoadReject
    \/ \E i \in DOMAIN events, confirmed \in BOOLEAN : deleteEvent(events[i], confirmed)
    \/ \E baseId \in BagToSet(calDeletes), ok \in BOOLEAN : DeleteEventDone(baseId, ok)
    \/ DelayedLoad

SpecCalendarDelete == CalendarDeleteInit /\ [][CalendarDeleteNext]_vars

\* the values the component renders from
filteredEvents == filteredEventsOf(events, filterMonth, filterYear, filterPhone)
eventsByDay == eventsByDayOf(filteredEvents)

(***************************************************************************)
(* The budget envelope ledger (BudgetPlanner).  Amounts are whole currency  *)
(* units: the ledger only adds, subtracts and takes Math.max, which are     *)
(* exact on them.  The store holds the two collections; budgetData is the   *)
(* component's snapshot of them.  A handler runs up to its next await in    *)
(* one step; a write takes effect in the step in which its await resolves.  *)
(* The transactions keep the order in which they were added: the order of  *)
(* the loaded list enters no computation.                                   *)
(***************************************************************************)
EnvOrder == <<"e1", "e2">>
EnvIds == { EnvOrder[i] : i \in DOMAIN EnvOrder }

\* envelopesSnap.docs.map(...): the envelope the component keeps for a document
LoadedEnvelope(id, data) ==
    [id |-> id,
     name |-> data.name,
     allocated |-> NumOrZero(data.allocated),
     spent |-> NumOrZero(data.spent),
     available |-> NumOrZero(data.allocated) - NumOrZero(data.spent)]

ReadEnvelopes(coll) == [i \in DOMAIN EnvOrder |-> LoadedEnvelope(EnvOrder[i], coll[EnvOrder[i]])]

\* list.reduce((sum, x) => sum + x, 0)
RECURSIVE SumSeq(_)
SumSeq(list) ==
    IF list = <<>> THEN 0
    ELSE SumSeq(SubSeq(list, 1, Len(list) - 1)) + list[Len(list)]

\* mutant: the totals kept as running counters, added to at every load
BudgetOf_RunningTotals(envelopes, transactions) ==
    LET totalAllocated == SumSeq([i \in DOMAIN envelopes |-> envelopes[i].allocated])
        totalSpent == budgetData.totalSpent
                      + SumSeq([i \in DOMAIN envelopes |-> envelopes[i].spent])
        incomeTransactions == SelectSeq(transactions, LAMBDA t : t.type = "income")
        totalIncome == SumSeq([i \in DOMAIN incomeTransactions |-> incomeTransactions[i].amount])
    IN [totalAvailable |-> totalIncome - totalSpent,
        totalAllocated |-> totalAllocated,
        totalSpent |-> totalSpent,
        envelopes |-> envelopes,
        transactions |-> transactions]

\* the value handed to setBudgetData for the envelopes and transactions read
BudgetOf(envelopes, transactions) ==
    LET totalAllocated == SumSeq([i \in DOMAIN envelopes |-> envelopes[i].allocated])
        totalSpent == SumSeq([i \in DOMAIN envelopes |-> envelopes[i].spent])
        incomeTransactions == SelectSeq(transactions, LAMBDA t : t.type = "income")
        totalIncome == SumSeq([i \in DOMAIN incomeTransactions |-> incomeTransactions[i].amount])
    IN [totalAvailable |-> totalIncome - totalSpent,
        totalAllocated |-> totalAllocated,
        totalSpent |-> totalSpent,
        envelopes |-> envelopes,
        transactions |-> transactions]

\* list.find(x => x.id === id): the element in a one-element tuple, or NULL
FindById(list, id) ==
    LET hits == SelectSeq(list, LAMBDA x : x.id = id)
    IN IF hits = <<>> THEN NULL ELSE <<Head(hits)>>

\* the loads and the handlers waiting for a reply of the store
InFlight == BagCardinality(budgetLoads) + Cardinality(budgetOps)

\* loadBudgetData(), up to its first await; navigator.onLine is read at the call
StartLoad ==
    \E onLine \in BOOLEAN :
        IF onLine
        THEN /\ loading' = TRUE
             /\ budgetLoads' = budgetLoads (+) SetToBag({[stage |-> "envelopes", envelopes |-> <<>>]})
        ELSE /\ loading' = FALSE
             /\ UNCHANGED budgetLoads

\* the same, called by a handler whose own wait ends in this step
StartLoadAfter(op) ==
    /\ budgetOps' = budgetOps \ {op}
    /\ StartLoad

\* the snapshot equals what a load of the present store would set
Fresh == budgetData = BudgetOf(ReadEnvelopes(budget_envelopes), budget_transactions)

MaxTxns == 1
MaxInFlight == 2

\* Number(text) for the text of an amount field, a sequence of characters: an optional
\* sign and decimal digits give the number, the empty text 0, anything else NaN (NULL)
NumberOfText(text) ==
    LET negative == text # <<>> /\ Head(text) = "-"
        body == IF negative THEN Tail(text) ELSE text
    IN IF text = <<>> THEN Num(0)
       ELSE IF body = <<>> \/ \E i \in DOMAIN body : body[i] \notin Digits THEN NULL
       ELSE Num(IF negative THEN 0 - NumberOfDigits(body) ELSE NumberOfDigits(body))

\* the texts typed into the amount fields
IncomeAmounts == { <<"1", "0", "0", "0">>, <<>>, <<"a", "b", "c">>, <<"0">>, <<"-", "5">> }
ExpenseAmounts == { <<"2", "0", "0">>, <<>>, <<"a", "b", "c">>, <<"0">>, <<"-", "5">> }

\* the expense form as submitted: the envelope selected (its id in a one-element tuple,
\* or none) and the text typed as amount
ExpenseForms ==
    { [selectedEnvelope |-> <<e>>, amount |-> <<"2", "0", "0">>] : e \in EnvIds }
    \cup { [selectedEnvelope |-> NULL, amount |-> <<"2", "0", "0">>] }
    \cup { [selectedEnvelope |-> <<"e1">>, amount |-> text] : text \in ExpenseAmounts }

\* the envelope documents: allocated 1000 with 600 spent, and a smaller envelope whose
\* document has no spent field yet
InitialEnvelopes ==
    { [e1 |-> [name |-> "Equipo", allocated |-> Num(1000), spent |-> Num(600)],
       e2 |-> [name |-> "Viajes", allocated |-> Num(100), spent |-> NULL]] }

\* the state after construction and the mount effect, which calls loadBudgetData()
BudgetInit ==
    /\ budget_envelopes \in InitialEnvelopes
    /\ budget_transactions = <<>>
    /\ nextTxnId = 1
    /\ budgetData = EmptyBudget
    /\ \/ loading = TRUE
          /\ budgetLoads = SetToBag({[stage |-> "envelopes", envelopes |-> <<>>]})
       \/ loading = FALSE
          /\ budgetLoads = EmptyBag
    /\ budgetOps = {}
    /\ expenseLog = <<>>
    /\ EnvIdle /\ AmountsIdle /\ PeriodIdle /\ DataIdle /\ CalIdle /\ PageIdle /\ DashLoadIdle

\* loadBudgetData, after the read of the envelopes: resolved, or rejected and caught
LoadEnvelopesDone(load, ok) ==
    /\ BagIn(load, budgetLoads)
    /\ load.stage = "envelopes"
    /\ budgetLoads' = (budgetLoads (-) SetToBag({load})) (+) SetToBag({
           [stage |-> "transactions",
            envelopes |-> IF ok THEN ReadEnvelopes(budget_envelopes) ELSE <<>>]})
    /\ UNCHANGED <<budget_envelopes, budget_transactions, nextTxnId, budgetData, loading, budgetOps, expenseLog>>
    /\ UNCHANGED otherVars

\* loadBudgetData, after the read of the transactions, to its end
LoadTransactionsDone(load, ok) ==
    /\ BagIn(load, budgetLoads)
    /\ load.stage = "transactions"
    /\ budgetData' = BudgetOf(load.envelopes,
                              IF ok THEN budget_transactions ELSE <<>>)
    /\ loading' = FALSE
    /\ budgetLoads' = budgetLoads (-) SetToBag({load})
    /\ UNCHANGED <<budget_envelopes, budget_transactions, nextTxnId,
                   budgetOps, expenseLog>>
    /\ UNCHANGED otherVars

\* mutant: the amount is not required to be above 0
handleAddIncome_NoAmountCheck(incomeAmount) ==
    LET amount == NumberOfText(incomeAmount)[1]
    IN /\ ~(incomeAmount = <<>> \/ NumberOfText(incomeAmount) = NULL)
       /\ nextTxnId <= MaxTxns
       /\ InFlight < MaxInFlight
       /\ budget_transactions' = Append(budget_transactions,
              [id |-> nextTxnId, type |-> "income", amount |-> amount,
               envelopeId |-> NULL, category |-> "Ingresos"])
       /\ nextTxnId' = nextTxnId + 1
       /\ StartLoad
       /\ UNCHANGED <<budget_envelopes, budgetData, budgetOps, expenseLog>>
       /\ UNCHANGED otherVars

\* handleAddIncome with the text typed as amount, past its early returns (an empty or
\* non-numeric text; an amount <= 0, after the alert): the transaction is added and the
\* data reloaded
handleAddIncome(incomeAmount) ==
    LET amount == NumberOfText(incomeAmount)[1]
    IN /\ ~(incomeAmount = <<>> \/ NumberOfText(incomeAmount) = NULL)
       /\ ~(amount <= 0)
       /\ nextTxnId <= MaxTxns
       /\ InFlight < MaxInFlight
       /\ budget_transactions' = Append(budget_transactions,
              [id |-> nextTxnId, type |-> "income", amount |-> amount,
               envelopeId |-> NULL, category |-> "Ingresos"])
       /\ nextTxnId' = nextTxnId + 1
       /\ StartLoad
       /\ UNCHANGED <<budget_envelopes, budgetData, budgetOps, expenseLog>>
       /\ UNCHANGED otherVars

\* mutant: the amount is not required to be above 0
handleAddExpense_NoAmountCheck(selectedEnvelope, expenseAmount) ==
    LET amount == NumberOfText(expenseAmount)[1]
        found == FindById(budgetData.envelopes, selectedEnvelope[1])
        envelope == found[1]
    IN /\ ~(expenseAmount = <<>> \/ selectedEnvelope = NULL \/ NumberOfText(expenseAmount) = NULL)
       /\ ~(found = NULL)
       /\ nextTxnId <= MaxTxns
       /\ InFlight < MaxInFlight
       /\ budget_transactions' = Append(budget_transactions,
              [id |-> nextTxnId, type |-> "expense", amount |-> amount,
               envelopeId |-> selectedEnvelope, category |-> envelope.name])
       /\ nextTxnId' = nextTxnId + 1
       /\ budgetOps' = budgetOps \cup
              { [kind |-> "expense", id |-> nextTxnId, envelopeId |-> selectedEnvelope[1],
                 newSpent |-> envelope.spent + amount] }
       /\ expenseLog' = Append(expenseLog,
              [id |-> nextTxnId, envelopeId |-> selectedEnvelope[1], amount |-> amount,
               spentBefore |-> LoadedEnvelope(selectedEnvelope[1],
                                              budget_envelopes[selectedEnvelope[1]]).spent,
               availableBefore |-> LoadedEnvelope(selectedEnvelope[1],
                                                  budget_envelopes[selectedEnvelope[1]]).available,
               addedFresh |-> Fresh,
               spentAfter |-> NULL, deletedFresh |-> FALSE, restored |-> NULL])
       /\ UNCHANGED <<budget_envelopes, budgetData, loading, budgetLoads>>
       /\ UNCHANGED otherVars

\* handleAddExpense with the envelope selected and the text typed as amount, past its
\* early returns (an empty or non-numeric text or no selection; an amount <= 0 or an
\* envelope missing from the ledger, after the alert), to the await of updateDoc: the
\* transaction is added
handleAddExpense(selectedEnvelope, expenseAmount) ==
    LET amount == NumberOfText(expenseAmount)[1]
        found == FindById(budgetData.envelopes, selectedEnvelope[1])
        envelope == found[1]
    IN /\ ~(expenseAmount = <<>> \/ selectedEnvelope = NULL \/ NumberOfText(expenseAmount) = NULL)
       /\ ~(amount <= 0)
       /\ ~(found = NULL)
       /\ nextTxnId <= MaxTxns
       /\ InFlight < MaxInFlight
       /\ budget_transactions' = Append(budget_transactions,
              [id |-> nextTxnId, type |-> "expense", amount |-> amount,
               envelopeId |-> selectedEnvelope, category |-> envelope.name])
       /\ nextTxnId' = nextTxnId + 1
       /\ budgetOps' = budgetOps \cup
              { [kind |-> "expense", id |-> nextTxnId, envelopeId |-> selectedEnvelope[1],
                 newSpent |-> envelope.spent + amount] }
       /\ expenseLog' = Append(expenseLog,
              [id |-> nextTxnId, envelopeId |-> selectedEnvelope[1], amount |-> amount,
               spentBefore |-> LoadedEnvelope(selectedEnvelope[1],
                                              budget_envelopes[selectedEnvelope[1]]).spent,
               availableBefore |-> LoadedEnvelope(selectedEnvelope[1],
                                                  budget_envelopes[selectedEnvelope[1]]).available,
               addedFresh |-> Fresh,
               spentAfter |-> NULL, deletedFresh |-> FALSE, restored |-> NULL])
       /\ UNCHANGED <<budget_envelopes, budgetData, loading, budgetLoads>>
       /\ UNCHANGED otherVars

\* the log with the entry of transaction id replaced by F(entry)
Logged(id, F(_)) ==
    [i \in DOMAIN expenseLog |->
        IF expenseLog[i].id = id THEN F(expenseLog[i]) ELSE expenseLog[i]]

\* mutant: a rejected updateDoc is compensated by removing the transaction
AddExpenseUpdateDone_RollsBack(op, ok) ==
    /\ op \in budgetOps
    /\ op.kind = "expense"
    /\ IF ok
       THEN /\ UNCHANGED budget_transactions
            /\ budget_envelopes' =
                   [budget_envelopes EXCEPT ![op.envelopeId].spent = Num(op.newSpent)]
            /\ StartLoadAfter(op)
            /\ expenseLog' = Logged(op.id,
                   LAMBDA r : [r EXCEPT !.spentAfter = Num(op.newSpent)])
       ELSE /\ budgetOps' = budgetOps \ {op}
            /\ budget_transactions' = SelectSeq(budget_transactions, LAMBDA t : t.id # op.id)
            /\ UNCHANGED <<budget_envelopes, loading, budgetLoads, expenseLog>>
    /\ UNCHANGED <<nextTxnId, budgetData>>
    /\ UNCHANGED otherVars

\* handleAddExpense, after updateDoc: resolved (the envelope's spent is set, the form is
\* cleared and the data reloaded), or rejected and caught
AddExpenseUpdateDone(op, ok) ==
    /\ op \in budgetOps
    /\ op.kind = "expense"
    /\ IF ok
       THEN /\ budget_envelopes' =
                   [budget_envelopes EXCEPT ![op.envelopeId].spent = Num(op.newSpent)]
            /\ StartLoadAfter(op)
            /\ expenseLog' = Logged(op.id,
                   LAMBDA r : [r EXCEPT !.spentAfter = Num(op.newSpent)])
       ELSE /\ budgetOps' = budgetOps \ {op}
            /\ UNCHANGED <<budget_envelopes, loading, budgetLoads, expenseLog>>
    /\ UNCHANGED <<budget_transactions, nextTxnId, budgetData>>
    /\ UNCHANGED otherVars

\* the transactions left by deleteDoc
WithoutTransaction(id) == SelectSeq(budget_transactions, LAMBDA t : t.id # id)

\* mutant: the envelope's spent written back as it was loaded
handleDeleteTransaction_KeepsSpent(id, confirmed) ==
    LET foundT == FindById(budgetData.transactions, id)
        transaction == foundT[1]
        foundE == IF transaction.envelopeId # NULL /\ transaction.type = "expense"
                  THEN FindById(budgetData.envelopes, transaction.envelopeId[1])
                  ELSE NULL
        envelope == foundE[1]
        newSpent == Max(0, envelope.spent)
    IN /\ foundT # NULL
       /\ confirmed
       /\ InFlight < MaxInFlight
       /\ IF foundE # NULL
          THEN /\ budget_envelopes' =
                      [budget_envelopes EXCEPT ![envelope.id].spent = Num(newSpent)]
               /\ budgetOps' = budgetOps \cup
                      { [kind |-> "delete", id |-> id, envelopeId |-> envelope.id,
                         newSpent |-> newSpent] }
               /\ expenseLog' = Logged(id, LAMBDA r :
                      [r EXCEPT !.deletedFresh =
                                    Fresh /\ budget_envelopes[envelope.id].spent = r.spentAfter,
                                !.restored = budget_envelopes'[envelope.id].spent])
               /\ UNCHANGED <<budget_transactions, loading, budgetLoads>>
          ELSE /\ budget_transactions' = WithoutTransaction(id)
               /\ StartLoad
               /\ UNCHANGED <<budget_envelopes, budgetOps, expenseLog>>
       /\ UNCHANGED <<nextTxnId, budgetData>>
       /\ UNCHANGED otherVars

\* mutant: the envelope's spent lowered without the clamp at 0
handleDeleteTransaction_NoClamp(id, confirmed) ==
    LET foundT == FindById(budgetData.transactions, id)
        transaction == foundT[1]
        foundE == IF transaction.envelopeId # NULL /\ transaction.type = "expense"
                  THEN FindById(budgetData.envelopes, transaction.envelopeId[1])
                  ELSE NULL
        envelope == foundE[1]
        newSpent == envelope.spent - transaction.amount
    IN /\ foundT # NULL
       /\ confirmed
       /\ InFlight < MaxInFlight
       /\ IF foundE # NULL
          THEN /\ budget_envelopes' =
                      [budget_envelopes EXCEPT ![envelope.id].spent = Num(newSpent)]
               /\ budgetOps' = budgetOps \cup
                      { [kind |-> "delete", id |-> id, envelopeId |-> envelope.id,
                         newSpent |-> newSpent] }
               /\ expenseLog' = Logged(id, LAMBDA r :
                      [r EXCEPT !.deletedFresh =
                                    Fresh /\ budget_envelopes[envelope.id].spent = r.spentAfter,
                                !.restored = budget_envelopes'[envelope.id].spent])
               /\ UNCHANGED <<budget_transactions, loading, budgetLoads>>
          ELSE /\ budget_transactions' = WithoutTransaction(id)
               /\ StartLoad
               /\ UNCHANGED <<budget_envelopes, budgetOps, expenseLog>>
       /\ UNCHANGED <<nextTxnId, budgetData>>
       /\ UNCHANGED otherVars

\* handleDeleteTransaction of a listed transaction, past its early return (the
\* confirmation declined), to its first await: an expense of an envelope of the ledger
\* first has the envelope's spent lowered, anything else is removed at once
handleDeleteTransaction(id, confirmed) ==
    LET foundT == FindById(budgetData.transactions, id)
        transaction == foundT[1]
        foundE == IF transaction.envelopeId # NULL /\ transaction.type = "expense"
                  THEN FindById(budgetData.envelopes, transaction.envelopeId[1])
                  ELSE NULL
        envelope == foundE[1]
        newSpent == Max(0, envelope.spent - transaction.amount)
    IN /\ foundT # NULL
       /\ confirmed
       /\ InFlight < MaxInFlight
       /\ IF foundE # NULL
          THEN /\ budget_envelopes' =
                      [budget_envelopes EXCEPT ![envelope.id].spent = Num(newSpent)]
               /\ budgetOps' = budgetOps \cup
                      { [kind |-> "delete", id |-> id, envelopeId |-> envelope.id,
                         newSpent |-> newSpent] }
               /\ expenseLog' = Logged(id, LAMBDA r :
                      [r EXCEPT !.deletedFresh =
                                    Fresh /\ budget_envelopes[envelope.id].spent = r.spentAfter,
                                !.restored = budget_envelopes'[envelope.id].spent])
               /\ UNCHANGED <<budget_transactions, loading, budgetLoads>>
          ELSE /\ budget_transactions' = WithoutTransaction(id)
               /\ StartLoad
               /\ UNCHANGED <<budget_envelopes, budgetOps, expenseLog>>
       /\ UNCHANGED <<nextTxnId, budgetData>>
       /\ UNCHANGED otherVars

\* handleDeleteTransaction, after deleteDoc that follows the envelope's update: resolved
\* (the transaction is removed and the data reloaded), or rejected and caught
DeleteDocDone(op, ok) ==
    /\ op \in budgetOps
    /\ op.kind = "delete"
    /\ IF ok
       THEN /\ budget_transactions' = WithoutTransaction(op.id)
            /\ StartLoadAfter(op)
       ELSE /\ budgetOps' = budgetOps \ {op}
            /\ UNCHANGED <<budget_transactions, loading, budgetLoads>>
    /\ UNCHANGED <<budget_envelopes, nextTxnId, budgetData, expenseLog>>
    /\ UNCHANGED otherVars

BudgetNext ==
    \/ \E load \in BagToSet(budgetLoads), ok \in BOOLEAN : LoadEnvelopesDone(load, ok)
    \/ \E load \in BagToSet(budgetLoads), ok \in BOOLEAN : LoadTransactionsDone(load, ok)
    \/ \E incomeAmount \in IncomeAmounts : handleAddIncome(incomeAmount)
    \/ \E form \in ExpenseForms : handleAddExpense(form.selectedEnvelope, form.amount)
    \/ \E op \in budgetOps, ok \in BOOLEAN : AddExpenseUpdateDone(op, ok)
    \/ \E id \in 1 .. MaxTxns, confirmed \in BOOLEAN : handleDeleteTransaction(id, confirmed)
    \/ \E op \in budgetOps, ok \in BOOLEAN : DeleteDocDone(op, ok)

SpecBudget == BudgetInit /\ [][BudgetNext]_vars

\* an expense of 200 added to the first envelope in an earlier session: its transaction
\* is in the store and the envelope's spent holds it
EarlierExpense ==
    [id |-> 0, type |-> "expense", amount |-> 200,
     envelopeId |-> <<"e1">>, category |-> "Equipo"]

EnvelopesWithEarlierExpense ==
    { [init EXCEPT !.e1.spent = Num(NumOrZero(init.e1.spent) + EarlierExpense.amount)]
        : init \in InitialEnvelopes }

\* the planner opened on a store that holds the earlier expense
ConcurrentInit ==
    /\ budget_envelopes \in EnvelopesWithEarlierExpense
    /\ budget_transactions = <<EarlierExpense>>
    /\ nextTxnId = 1
    /\ budgetData = EmptyBudget
    /\ loading = TRUE
    /\ budgetLoads = SetToBag({[stage |-> "envelopes", envelopes |-> <<>>]})
    /\ budgetOps = {}
    /\ expenseLog = <<>>
    /\ EnvIdle /\ AmountsIdle /\ PeriodIdle /\ DataIdle /\ CalIdle /\ PageIdle /\ DashLoadIdle

\* add-expense and delete-transaction in any interleaving, every read and every write
\* of the store succeeding
ConcurrentNext ==
    \/ \E load \in BagToSet(budgetLoads) : LoadEnvelopesDone(load, TRUE)
    \/ \E load \in BagToSet(budgetLoads) : LoadTransactionsDone(load, TRUE)
    \/ \E form \in ExpenseForms : handleAddExpense(form.selectedEnvelope, form.amount)
    \/ \E op \in budgetOps : AddExpenseUpdateDone(op, TRUE)
    \/ \E id \in 0 .. MaxTxns, confirmed \in BOOLEAN : handleDeleteTransaction(id, confirmed)
    \/ \E op \in budgetOps : DeleteDocDone(op, TRUE)

SpecBudgetConcurrent == ConcurrentInit /\ [][ConcurrentNext]_vars

\* an expense of 200 of the second envelope left by an earlier session whose updateDoc
\* failed after addDoc: its transaction is in the store, the envelope's spent was never
\* raised
UnbookedExpense ==
    [id |-> 0, type |-> "expense", amount |-> 200,
     envelopeId |-> <<"e2">>, category |-> "Viajes"]

\* the planner opened on a store that holds the unbooked expense
OverspentInit ==
    /\ budget_envelopes \in InitialEnvelopes
    /\ budget_transactions = <<UnbookedExpense>>
    /\ nextTxnId = 1
    /\ budgetData = EmptyBudget
    /\ loading = TRUE
    /\ budgetLoads = SetToBag({[stage |-> "envelopes", envelopes |-> <<>>]})
    /\ budgetOps = {}
    /\ expenseLog = <<>>
    /\ EnvIdle /\ AmountsIdle /\ PeriodIdle /\ DataIdle /\ CalIdle /\ PageIdle /\ DashLoadIdle

\* every operation of the planner, each started when the one before it has ended, its
\* reload included; every read and every write of the store succeeds or fails
OverspentNext ==
    \/ \E load \in BagToSet(budgetLoads), ok \in BOOLEAN : LoadEnvelopesDone(load, ok)
    \/ \E load \in BagToSet(budgetLoads), ok \in BOOLEAN : LoadTransactionsDone(load, ok)
    \/ InFlight = 0 /\ \E incomeAmount \in IncomeAmounts : handleAddIncome(incomeAmount)
    \/ InFlight = 0 /\ \E form \in ExpenseForms :
                          handleAddExpense(form.selectedEnvelope, form.amount)
    \/ \E op \in budgetOps, ok \in BOOLEAN : AddExpenseUpdateDone(op, ok)
    \/ InFlight = 0 /\ \E id \in 0 .. MaxTxns, confirmed \in BOOLEAN :
                          handleDeleteTransaction(id, confirmed)
    \/ \E op \in budgetOps, ok \in BOOLEAN : DeleteDocDone(op, ok)

SpecBudgetOverspent == OverspentInit /\ [][OverspentNext]_vars

(***************************************************************************)
(* The loads of the three views: the dashboard's load effect, the          *)
(* calendar's load and the planner's loadBudgetData, each with its reads   *)
(* resolving or rejecting.  Every call of the store settles and the event  *)
(* loop runs every continuation, which is what the fairness conditions     *)
(* say; when a load is started is up to the user.                          *)
(***************************************************************************)

\* the dashboard's load effect, to its first await: offline it returns through finally
DashboardLoadStart(onLine) ==
    /\ dashLoad.stage = "mount"
    /\ dashLoad' = IF onLine
                   THEN [loading |-> TRUE, stage |-> "contracts"]
                   ELSE [loading |-> FALSE, stage |-> "done"]
    /\ UNCHANGED <<amountVars, envVars, periodVars, dataVars, calVars, budgetVars, page>>

\* the dashboard's load effect, after one of its three reads: resolved (the state is set
\* and the next read awaited, or the effect ends), or rejected (caught, the effect ends)
DashboardReadDone(ok, instList) ==
    /\ dashLoad.stage \in {"contracts", "orders", "installments"}
    /\ dashLoad' =
          IF ok /\ dashLoad.stage = "contracts" THEN [dashLoad EXCEPT !.stage = "orders"]
          ELSE IF ok /\ dashLoad.stage = "orders"
               THEN [dashLoad EXCEPT !.stage = "installments"]
          ELSE [loading |-> FALSE, stage |-> "done"]
    /\ contracts' = IF ok /\ dashLoad.stage = "contracts"
                    THEN contractsCollection ELSE contracts
    /\ investmentInstallments' = IF ok /\ dashLoad.stage = "installments"
                                 THEN instList ELSE investmentInstallments
    /\ UNCHANGED <<amountVars, envVars, periodVars, calVars, budgetVars, page>>

\* the three views just constructed: the dashboard before its effect ran, the calendar
\* before a load, the planner after loadBudgetData was called by its mount effect
ViewsInit ==
    /\ now = Noon /\ tz = 0
    /\ contractsCollection \in { WithIds(l) : l \in SeqsUpTo({CalendarDoc(<<"b">>, NextDay, Time_0900, <<>>)}, 1) }
    /\ events = <<>> /\ calLoading = FALSE /\ calLoads = 0
    /\ calLoaded = "none" /\ calDeletes = EmptyBag /\ calTimers = 0 /\ published = EmptyBag
    /\ current = Today
    /\ filterMonth = Today.m /\ filterYear = Today.y
    /\ filterPhone = <<>>
    /\ contracts = <<>> /\ investmentInstallments = <<>>
    /\ dashLoad = [loading |-> TRUE, stage |-> "mount"]
    /\ budget_envelopes \in EnvelopesWithEarlierExpense
    /\ budget_transactions = <<EarlierExpense>>
    /\ nextTxnId = 1
    /\ budgetData = EmptyBudget
    /\ \/ loading = TRUE
          /\ budgetLoads = SetToBag({[stage |-> "envelopes", envelopes |-> <<>>]})
       \/ loading = FALSE
          /\ budgetLoads = EmptyBag
    /\ budgetOps = {}
    /\ expenseLog = <<>>
    /\ AmountsIdle /\ PeriodIdle /\ PageIdle

BudgetLoadStep ==
    \/ \E load \in BagToSet(budgetLoads), ok \in BOOLEAN : LoadEnvelopesDone(load, ok)
    \/ \E load \in BagToSet(budgetLoads), ok \in BOOLEAN : LoadTransactionsDone(load, ok)

DashboardLoadStep ==
    \/ \E onLine \in BOOLEAN : DashboardLoadStart(onLine)
    \/ \E ok \in BOOLEAN, instList \in SeqsUpTo(SampleInstallments, MaxInstallments) :
          DashboardReadDone(ok, instList)

ViewsNext ==
    \/ BudgetLoadStep
    \/ \E incomeAmount \in IncomeAmounts : handleAddIncome(incomeAmount)
    \/ LoadStart
    \/ LoadResolve
    \/ LoadReject
    \/ DashboardLoadStep

SpecViews ==
    /\ ViewsInit
    /\ [][ViewsNext]_vars
    /\ WF_vars(BudgetLoadStep)
    /\ WF_vars(LoadResolve \/ LoadReject)
    /\ WF_vars(DashboardLoadStep)

(***************************************************************************)
(* The photo-sharing page.  One mount of the page with its route           *)
(* parameters: checkAndLoad runs once.  The file imports doc and getDoc    *)
(* only, so query, collection, where and getDocs are free names: where     *)
(* nothing binds them the call of query throws a ReferenceError inside the *)
(* try; where the bundle binds them the lookup is awaited and resolves or  *)
(* rejects.  Both are modelled.                                            *)
(***************************************************************************)
ShareTokens == { NULL, <<"tok">> }

\* the contractId route parameter: none, or an id (3 is the id of no stored contract)
ContractIdParams == { NULL, <<1>>, <<2>>, <<3>> }

\* the documents of the collection whose id is the one asked for
DocsNamed(id) == SelectSeq(contractsCollection, LAMBDA d : d.id = id)

\* alert(message) followed by navigate('/')
AlertAndLeave(pg, message) ==
    [pg EXCEPT !.alerts = Append(pg.alerts, message),
               !.navigated = Append(pg.navigated, "/")]

PhotoPageInit ==
    /\ now = Noon /\ tz = 0
    /\ contractsCollection \in { WithIds(l) : l \in SeqsUpTo(SampleDocs, MaxDocs) }
    /\ events = <<>> /\ calLoading = FALSE /\ calLoads = 0
    /\ calLoaded = "none" /\ calDeletes = EmptyBag /\ calTimers = 0 /\ published = EmptyBag
    /\ current = [y |-> 0, m |-> 0]
    /\ filterMonth = 0 /\ filterYear = 0 /\ filterPhone = <<>>
    /\ \E token \in ShareTokens, id \in ContractIdParams :
          page = [shareToken |-> token, contractId |-> id,
                  isAdmin |-> FALSE, contract |-> NULL, loading |-> TRUE,
                  alerts |-> <<>>, navigated |-> <<>>, lookups |-> 0, pc |-> "mount"]
    /\ AmountsIdle /\ PeriodIdle /\ DataIdle /\ BudgetIdle /\ DashLoadIdle

\* mutant: the share token is checked after the contract id
checkAndLoad_ContractIdFirst(bound) ==
    /\ page.pc = "mount"
    /\ page' =
          IF page.contractId # NULL
          THEN IF bound
               THEN [page EXCEPT !.lookups = page.lookups + 1, !.pc = "await"]
               ELSE [AlertAndLeave(page, "Error al cargar") EXCEPT
                        !.loading = FALSE, !.pc = "done"]
          ELSE IF page.shareToken # NULL
          THEN [page EXCEPT !.isAdmin = FALSE, !.loading = FALSE, !.pc = "done"]
          ELSE [AlertAndLeave(page, "URL invalida") EXCEPT !.loading = FALSE, !.pc = "done"]
    /\ UNCHANGED <<amountVars, envVars, periodVars, dataVars, calVars, budgetVars, dashLoad>>

\* checkAndLoad, to its await or to its end; bound: the names query, collection, where
\* and getDocs are bound at run time
checkAndLoad(bound) ==
    /\ page.pc = "mount"
    /\ page' =
          IF page.shareToken # NULL
          THEN [page EXCEPT !.isAdmin = FALSE, !.loading = FALSE, !.pc = "done"]
          ELSE IF page.contractId # NULL
          THEN IF bound
               THEN [page EXCEPT !.lookups = page.lookups + 1, !.pc = "await"]
               ELSE [AlertAndLeave(page, "Error al cargar") EXCEPT
                        !.loading = FALSE, !.pc = "done"]
          ELSE [AlertAndLeave(page, "URL invalida") EXCEPT !.loading = FALSE, !.pc = "done"]
    /\ UNCHANGED <<amountVars, envVars, periodVars, dataVars, calVars, budgetVars, dashLoad>>

\* checkAndLoad, after getDocs: resolved with the documents named contractId, or rejected
LookupDone(ok) ==
    /\ page.pc = "await"
    /\ page' =
          IF ~ok
          THEN [AlertAndLeave(page, "Error al cargar") EXCEPT !.loading = FALSE, !.pc = "done"]
          ELSE IF DocsNamed(page.contractId[1]) # <<>>
          THEN [page EXCEPT !.contract = <<DocsNamed(page.contractId[1])[1]>>,
                            !.isAdmin = TRUE, !.loading = FALSE, !.pc = "done"]
          ELSE [AlertAndLeave(page, "Contrato no encontrado") EXCEPT
                   !.loading = FALSE, !.pc = "done"]
    /\ UNCHANGED <<amountVars, envVars, periodVars, dataVars, calVars, budgetVars, dashLoad>>

PhotoPageNext ==
    \/ \E bound \in BOOLEAN : checkAndLoad(bound)
    \/ \E ok \in BOOLEAN : LookupDone(ok)

SpecPhotoPage == PhotoPageInit /\ [][PhotoPageNext]_vars

\* what the component returns for the state it is in
RenderedView ==
    IF page.loading THEN "loading"
    ELSE IF page.isAdmin /\ page.contract # NULL THEN "admin"
    ELSE IF ~page.isAdmin /\ page.shareToken # NULL THEN "client"
    ELSE "invalid"

(***************************************************************************)
(* Claims about the amount derivation (SpecAmounts)                        *)
(***************************************************************************)

\* C1 (as claimed): whenever the derived totalAmount is >= 0, the amounts returned by
\* computeAmounts satisfy depositAmount + remainingAmount = totalAmount.
C1_DepositPlusRemainingIsTotal ==
    (calcA # NONE /\ calcA.totalAmount >= 0)
        => calcA.depositAmount + calcA.remainingAmount = calcA.totalAmount

\* The two contracts the twins stand for differ in the stored totalAmount only.
TwinsDiffer == contract.totalAmount # twin.totalAmount

\* C3 (as claimed): with a non-empty service-line list the derived total does not
\* depend on the stored totalAmount.
C3_NonEmptyListIndependent ==
    (calcA # NONE /\ dashA # NONE /\ Len(SvcList(contract)) > 0)
        => /\ dashA.total = dashB.total
           /\ calcA.totalAmount = calcB.totalAmount

\* C3 (amended): when the service lines sum to more than 0, the derived total does not
\* depend on the stored totalAmount.
C3_PositiveServicesIndependent ==
    (calcA # NONE /\ dashA # NONE /\ SumServices(SvcList(contract)) > 0)
        => /\ dashA.total = dashB.total
           /\ calcA.totalAmount = calcB.totalAmount

C3_Witness ==
    /\ calcA # NONE /\ dashA # NONE
    /\ SumServices(SvcList(contract)) > 0
    /\ TwinsDiffer
    /\ dashA.total = dashB.total

\* the case of C4: no service line, storeTotal = 0 and travel = 0
C4_Case(c) ==
    /\ Len(SvcList(c)) = 0
    /\ SumStore(StoreList(c)) = 0
    /\ NumOrZero(c.travelFee) = 0

\* C4 (as claimed): with no service line, storeTotal = 0 and travel = 0 the derived
\* total is round(totalAmount), for every stored totalAmount.
C4_TotalIsRoundedStored ==
    (dashA # NONE /\ C4_Case(contract))
        => /\ dashA.total = MathRound(NumOrZero(contract.totalAmount))
           /\ monA.total = MathRound(NumOrZero(contract.totalAmount))

\* C4 (amended): with no service line, storeTotal = 0 and travel = 0 the derived total
\* is round(max(0, totalAmount)): a negative stored total derives 0.
C4_TotalIsRoundedClampedStored ==
    (dashA # NONE /\ C4_Case(contract))
        => /\ dashA.total = MathRound(Max(0, NumOrZero(contract.totalAmount)))
           /\ monA.total = MathRound(Max(0, NumOrZero(contract.totalAmount)))

C4_Witness ==
    /\ dashA # NONE /\ C4_Case(contract)
    /\ contract.totalAmount = Num(1)
    /\ dashA.total = 0

\* C5 (as claimed): the derived total is >= 0 for every contract record.
C5_TotalNonNegative ==
    /\ calcA # NONE => calcA.totalAmount >= 0
    /\ dashA # NONE => dashA.total >= 0

\* d (quarters, a whole number of units) is Math.ceil of n/40 units
IsCeilOf40ths(d, n) == d % 4 = 0 /\ 10 * d >= n /\ 10 * (d - 4) < n

\* C6 (as claimed): the deposit is ceil(storeTotal x 0.5) when the derived services are 0
\* and ceil(services x 0.2 + storeTotal x 0.5) otherwise, whatever the travel fee.
C6_DepositIgnoresTravel ==
    calcA # NONE =>
        IF calcA.servicesTotal = 0
        THEN IsCeilOf40ths(calcA.depositAmount, 5 * calcA.storeTotal)
        ELSE IsCeilOf40ths(calcA.depositAmount, 2 * calcA.servicesTotal + 5 * calcA.storeTotal)

\* the scenario of C6: services 1000, no store item, travel 100
C6_Scenario(c) ==
    /\ c.services = <<[price |-> Str_R1000, quantity |-> Num(1)]>>
    /\ c.storeItems = <<>>
    /\ c.travelFee = Num(400)

\* C6 (amended): the deposit is ceil((storeTotal + travel) x 0.5) when the derived services
\* are 0 and storeTotal > 0, and ceil(services x 0.2 + storeTotal x 0.5) otherwise;
\* services 1000 with travel 100 give deposit 200 and remaining 900.
C6_DepositWithTravelOnStoreOnly ==
    calcA # NONE =>
        /\ IF calcA.servicesTotal = 0 /\ calcA.storeTotal > 0
           THEN IsCeilOf40ths(calcA.depositAmount, 5 * (calcA.storeTotal + calcA.travel))
           ELSE IsCeilOf40ths(calcA.depositAmount,
                              2 * calcA.servicesTotal + 5 * calcA.storeTotal)
        /\ C6_Scenario(contract) =>
              /\ calcA.servicesTotal = Units(1000) /\ calcA.totalAmount = Units(1100)
              /\ calcA.depositAmount = Units(200) /\ calcA.remainingAmount = Units(900)

C6_Witness ==
    /\ calcA # NONE
    /\ calcA.servicesTotal = 0 /\ calcA.storeTotal > 0 /\ calcA.travel > 0
    /\ calcA.depositAmount # MathCeilOf(calcA.storeTotal, 8)

(***************************************************************************)
(* Claims about the period filter (SpecPeriod)                             *)
(***************************************************************************)

\* the calendar day a date string names: the day written in a 'YYYY-MM-DD' string, the
\* day of the instant for a timestamp
DayOfDateStr(ds) == DayNumber(ds.y, ds.m, ds.d)

\* a timestamp names one day when its UTC day and its local day are the same day
NamesOneDay(ds) ==
    \/ ds.kind = "date"
    \/ ds.kind = "iso" /\ LocalDay(NewDate(ds).t, tz) = LocalDay(NewDate(ds).t, 0)

\* date >= start (if set) and date <= end through the end of that day (if set)
WithinCustomRange(ds, p) ==
    /\ p.start.kind # "none" => DayOfDateStr(ds) >= DayOfDateStr(p.start)
    /\ p.end.kind # "none" => DayOfDateStr(ds) <= DayOfDateStr(p.end)

\* C7 (as claimed): with period type 'custom', isInPeriod(date) is true exactly when the
\* date is on or after start (if set) and on or before end, through the end of that day
\* (if set); with start 2024-01-01 and end 2024-01-31, 2024-01-31 is in and 2024-02-01 out.
C7_CustomRangeInclusive ==
    (period.type = "custom" /\ NamesOneDay(pDate))
        => /\ inPeriodD # NONE => inPeriodD.value = WithinCustomRange(pDate, period)
           /\ inPeriodM # NONE => inPeriodM.value = WithinCustomRange(pDate, period)

\* the same statement for 'YYYY-MM-DD' date strings only (holds in every time zone)
C7_DateOnlyStrings ==
    (period.type = "custom" /\ pDate.kind = "date")
        => /\ inPeriodD # NONE => inPeriodD.value = WithinCustomRange(pDate, period)
           /\ inPeriodM # NONE => inPeriodM.value = WithinCustomRange(pDate, period)

(***************************************************************************)
(* Claims about the dashboard's aggregates (SpecDashboard)                 *)
(***************************************************************************)

\* the effective date is missing or unparsable
BadDateStr(ds) == ds.kind \in {"none", "bad"}

\* the first non-empty of the three date fields, '' when there is none
FirstNonEmpty(ds) ==
    IF \E i \in 1..3 : ds[i].kind # "none"
    THEN ds[CHOOSE i \in 1..3 : ds[i].kind # "none" /\ \A j \in 1..(i - 1) : ds[j].kind = "none"]
    ELSE NoDate

DatedContracts == SelectSeq(contracts, LAMBDA c : ~BadDateStr(EffectiveDate(c)))
DatedInstallments == SelectSeq(investmentInstallments, LAMBDA i : ~BadDateStr(i.dueDate))

\* C8: a contract or installment whose effective date (the first non-empty of
\* contractDate, eventDate, createdAt) is missing or unparsable is filtered out under
\* every period type, 'all' included, and adds nothing to any KPI, monthly row, invoice
\* or client total: the metrics are those of the records with a parsable date alone.
C8_UndatedRecordsExcluded ==
    LET fc == filteredContracts
        mt == metricsOf(fc, investmentInstallments, period, now, tz)
    IN
    /\ \A i \in DOMAIN contracts :
          LET eff == EffectiveDate(contracts[i]) IN
          /\ eff = FirstNonEmpty(<<contracts[i].contractDate, contracts[i].eventDate,
                                   contracts[i].createdAt>>)
          /\ BadDateStr(eff) =>
                /\ ~isInPeriod(eff, period, now, tz)
                /\ ~MD_isInPeriod(eff, period, now, tz)
                /\ \A k \in DOMAIN fc : fc[k].id # contracts[i].id
                /\ \A k \in DOMAIN mt.outstandingInvoices :
                      mt.outstandingInvoices[k].id # contracts[i].id
    /\ \A i \in DOMAIN investmentInstallments :
          BadDateStr(investmentInstallments[i].dueDate) =>
              ~isInPeriod(investmentInstallments[i].dueDate, period, now, tz)
    /\ mt = metricsOf(filteredContractsOf(DatedContracts, period, now, tz),
                      DatedInstallments, period, now, tz)
    /\ computeMonthlyData(contracts, investmentInstallments, period, now, tz)
         = computeMonthlyData(DatedContracts, DatedInstallments, period, now, tz)

C8_Witness ==
    /\ period.type = "all"
    /\ \E i \in DOMAIN contracts : EffectiveDate(contracts[i]) = BadDate
    /\ \E i \in DOMAIN contracts : ~BadDateStr(EffectiveDate(contracts[i]))
    /\ \E i \in DOMAIN investmentInstallments : investmentInstallments[i].dueDate = BadDate
    /\ Len(filteredContracts) = 1
    /\ metrics.currentMonthExpenses = 0

RECURSIVE SumIncome(_)
SumIncome(rows) == IF rows = <<>> THEN 0 ELSE Head(rows).income + SumIncome(Tail(rows))

\* the sum of the derived totals of the period-matching contracts of a list
RECURSIVE SumMatchingTotals(_)
SumMatchingTotals(cs) ==
    IF cs = <<>> THEN 0
    ELSE (IF isInPeriod(EffectiveDate(Head(cs)), period, now, tz)
          THEN contractAmounts(Head(cs)).total ELSE 0) + SumMatchingTotals(Tail(cs))

TwelveRows(rows) == Len(rows) = 12 /\ \A i \in 1..12 : rows[i].key = i - 1

\* C9: computeMonthlyData returns exactly 12 rows, keys 0..11, and the income of the 12
\* rows sums to the derived totals of all period-matching contracts, completed or not.
C9_TwelveRowsIncomeSum ==
    LET direct == computeMonthlyData(contracts, investmentInstallments, period, now, tz)
        viaMemo == metrics.monthlyData
        expected == SumMatchingTotals(contracts)
    IN /\ TwelveRows(viaMemo) /\ TwelveRows(direct)
       /\ SumIncome(viaMemo) = expected
       /\ SumIncome(direct) = expected

C9_Witness ==
    LET fc == filteredContracts
        rows == computeMonthlyData(fc, investmentInstallments, period, now, tz)
    IN /\ Len(fc) = 2
       /\ fc[1].eventCompleted /\ ~fc[2].eventCompleted
       /\ \E i, j \in 1..12 : i # j /\ rows[i].income > 0 /\ rows[j].income > 0


(***************************************************************************)
(* Claims about the calendar's day buckets (SpecCalendar)                  *)
(***************************************************************************)

\* the UTF-16 code unit of a character
CodeUnit(ch) ==
    CASE ch = " " -> 32
      [] ch = "-" -> 8212
      [] ch = "A" -> 65
      [] ch = "B" -> 66
      [] ch = "a" -> 97
      [] ch = "b" -> 98

\* a is lexicographically smaller than b: at the first position where they differ a has
\* the smaller character, or a is a proper prefix of b
LexicographicallySmaller(a, b) ==
    CompareSeq([i \in DOMAIN a |-> CodeUnit(a[i])], [i \in DOMAIN b |-> CodeUnit(b[i])]) < 0

\* a sorts before b in the collation order of localeCompare
CollatesBefore(a, b) == localeCompare(a, b) < 0

\* in every bucket the event with the smaller time in minutes comes first, and among
\* events of equal time the one whose name is NameBefore the other's
BucketsOrdered(byDay, NameBefore(_, _)) ==
    \A k \in DOMAIN byDay :
        \A i, j \in DOMAIN byDay[k] :
            LET a == byDay[k][i]
                b == byDay[k][j]
            IN /\ toMinutes(a.eventTime) < toMinutes(b.eventTime) => i < j
               /\ (toMinutes(a.eventTime) = toMinutes(b.eventTime)
                      /\ NameBefore(a.clientName, b.clientName)) => i < j

Occurrences(list, x) == Cardinality({ i \in DOMAIN list : list[i] = x })

\* C11: day bucketing neither loses nor duplicates events: for every date key the bucket
\* of eventsByDay has as many events as there are filtered events with that eventDate,
\* every bucketed event is a filtered event with that date, and every filtered event is
\* in the bucket of its date as often as it is in the filtered list.
C11_BucketsHoldTheFilteredEvents ==
    LET fevs == filteredEvents
        byDay == eventsByDay
    IN /\ \A i \in DOMAIN fevs : fevs[i].eventDate \in DOMAIN byDay
       /\ \A k \in DOMAIN byDay :
             LET ofDay == SelectSeq(fevs, LAMBDA ev : ev.eventDate = k)
             IN /\ Len(byDay[k]) = Len(ofDay)
                /\ \A j \in DOMAIN byDay[k] :
                      /\ byDay[k][j].eventDate = k
                      /\ Occurrences(byDay[k], byDay[k][j]) = Occurrences(fevs, byDay[k][j])
                      /\ Occurrences(fevs, byDay[k][j]) > 0

\* a day with several events in its bucket while the filter leaves other events out
C11_Witness ==
    /\ \E k \in DOMAIN eventsByDay : Len(eventsByDay[k]) >= 2
    /\ Len(filteredEvents) < Len(events)
    /\ Len(filteredEvents) >= 2

(***************************************************************************)
(* Claims about the budget envelope ledger (SpecBudget)                    *)
(***************************************************************************)

\* expenseLog records, for every expense added, the envelope's stored spent and
\* available before the add, the spent the add wrote, and the spent the delete of that
\* expense wrote.  An entry is an add followed, after reload, by its delete when the
\* add acted on a snapshot showing the store, its update of the envelope completed, and
\* the delete acted on a snapshot showing the store with the envelope as the add left it.
AddThenDelete(r) ==
    /\ r.addedFresh
    /\ r.spentAfter # NULL
    /\ r.deletedFresh
    /\ r.restored # NULL

RECURSIVE TotalOver(_, _)
TotalOver(S, f) ==
    IF S = {} THEN 0
    ELSE LET i == CHOOSE j \in S : TRUE
         IN f[i] + TotalOver(S \ {i}, f)

\* C12: the displayed ledger is a pure function of the envelopes and transactions its
\* last load read: each envelope's available = allocated - spent, totalAllocated is
\* the sum of allocated, totalSpent the sum of spent, totalAvailable the sum of the
\* income transactions' amounts less totalSpent; nothing is carried over from a
\* previous load.  (The ledger changes at the end of a load only, so this holds after
\* every completed loadBudgetData when it holds in every state.)
C12_LedgerIsFunctionOfLoadedState ==
    LET es == budgetData.envelopes
        ts == budgetData.transactions
        incomes == { i \in DOMAIN ts : ts[i].type = "income" }
    IN /\ \A i \in DOMAIN es : es[i].available = es[i].allocated - es[i].spent
       /\ budgetData.totalAllocated = TotalOver(DOMAIN es, [i \in DOMAIN es |-> es[i].allocated])
       /\ budgetData.totalSpent = TotalOver(DOMAIN es, [i \in DOMAIN es |-> es[i].spent])
       /\ budgetData.totalAvailable =
              TotalOver(incomes, [i \in DOMAIN ts |-> ts[i].amount]) - budgetData.totalSpent

\* a load completed after an earlier one had shown other figures: an income of 1000 is
\* listed, 600 is spent, 400 available, and nothing is in flight
C12_Witness ==
    /\ budgetLoads = EmptyBag /\ budgetOps = {} /\ loading = FALSE
    /\ Len(budgetData.envelopes) = 2
    /\ \E i \in DOMAIN budgetData.transactions : budgetData.transactions[i].type = "income"
    /\ budgetData.totalSpent = 600
    /\ budgetData.totalAllocated = 1100
    /\ budgetData.totalAvailable = 400


\* the spent an envelope had before any expense was recorded
InitialSpent(e) ==
    LET init == CHOOSE x \in InitialEnvelopes : TRUE
    IN NumOrZero(init[e].spent)

\* the sum of the amounts of the stored expense transactions linked to envelope e
LinkedExpenses(e) ==
    LET linked == SelectSeq(budget_transactions,
                            LAMBDA t : t.type = "expense" /\ t.envelopeId = <<e>>)
    IN SumSeq([i \in DOMAIN linked |-> linked[i].amount])

\* every write has completed and the ledger shows a reload of the present store
Settled == budgetOps = {} /\ budgetLoads = EmptyBag /\ Fresh

\* C13: for any interleaving of add-expense and delete-transaction operations of one
\* client acting on its loaded snapshot, once all writes have completed and the data
\* is reloaded, every envelope's spent equals its initial spent plus the sum of the
\* amounts of the expense transactions currently linked to it.
C13_SpentIsInitialPlusLinkedExpenses ==
    Settled =>
        \A i \in DOMAIN budgetData.envelopes :
            LET envelope == budgetData.envelopes[i]
            IN envelope.spent = InitialSpent(envelope.id) + LinkedExpenses(envelope.id)


\* the transactions a step adds to the store
AddedTransactions ==
    IF budget_transactions' = budget_transactions THEN {}
    ELSE { budget_transactions'[i] : i \in DOMAIN budget_transactions' } \
         { budget_transactions[i] : i \in DOMAIN budget_transactions }

\* the step adds the expense transaction t: it is the only transaction added, its amount
\* is above 0, it carries the id and the name of an envelope of the ledger, no envelope
\* is written in the step, and the update left pending is that envelope's shown spent
\* plus the amount
ExpenseAppended(t) ==
    LET shown == FindById(budgetData.envelopes, t.envelopeId[1])
    IN /\ budget_transactions' = Append(budget_transactions, t)
       /\ t.amount > 0
       /\ t.envelopeId # NULL
       /\ shown # NULL
       /\ t.category = shown[1].name
       /\ budget_envelopes' = budget_envelopes
       /\ budgetOps' \ budgetOps =
              { [kind |-> "expense", id |-> t.id, envelopeId |-> shown[1].id,
                 newSpent |-> shown[1].spent + t.amount] }

\* the step ends the pending update op of an add-expense: if an envelope is written, it
\* is the one of op and only its spent, set to the pending value; the transaction was
\* appended in an earlier step and no transaction is written in this one
ExpenseUpdated(op) ==
    /\ budget_transactions' = budget_transactions
    /\ \E i \in DOMAIN expenseLog : expenseLog[i].id = op.id
    /\ \/ budget_envelopes' = budget_envelopes
       \/ budget_envelopes' =
              [budget_envelopes EXCEPT ![op.envelopeId].spent = Num(op.newSpent)]

\* C14: add expense writes only with a selected envelope that exists in the ledger and
\* a numeric amount > 0; when accepted (also when the amount exceeds the envelope's
\* available) it first appends exactly one expense transaction tagged with the
\* envelope's id and name, and only in a later step sets that envelope's spent to its
\* previous (shown) spent plus the amount, changing no other envelope.
C14_AddExpenseAppendsThenUpdates ==
    [][ /\ \A t \in AddedTransactions : t.type = "expense" => ExpenseAppended(t)
        /\ \A op \in budgetOps \ budgetOps' : op.kind = "expense" => ExpenseUpdated(op)
      ]_vars

\* an expense of 200 was accepted on the envelope with 100 available: its transaction is
\* stored with the envelope's id and name, the envelope's spent went from 0 to 200, the
\* other envelope still has 600 spent, and the reloaded ledger shows -100 available
C14_Witness ==
    \E i \in DOMAIN expenseLog :
        LET r == expenseLog[i]
            t == FindById(budget_transactions, r.id)
            shown == FindById(budgetData.envelopes, "e2")
        IN /\ r.envelopeId = "e2" /\ r.amount = 200 /\ r.availableBefore = 100
           /\ r.spentBefore = 0 /\ r.spentAfter = Num(200)
           /\ t # NULL /\ t[1].type = "expense" /\ t[1].envelopeId = <<"e2">>
           /\ t[1].category = "Viajes" /\ t[1].amount = 200
           /\ budget_envelopes["e2"].spent = Num(200)
           /\ budget_envelopes["e1"].spent = Num(600)
           /\ budgetOps = {} /\ Fresh
           /\ shown # NULL /\ shown[1].available = 0 - 100


\* the transactions a step removes from the store
RemovedTransactions ==
    IF budget_transactions' = budget_transactions THEN {}
    ELSE { budget_transactions[i] : i \in DOMAIN budget_transactions } \
         { budget_transactions'[i] : i \in DOMAIN budget_transactions' }

\* the step removes transaction t: no envelope is written in it, and when t is an expense
\* tied to an envelope the update of that envelope was awaited in an earlier step
TransactionRemoved(t) ==
    /\ budget_envelopes' = budget_envelopes
    /\ (t.type = "expense" /\ t.envelopeId # NULL) =>
           \E op \in budgetOps \ budgetOps' :
               op.kind = "delete" /\ op.id = t.id /\ op.envelopeId = t.envelopeId[1]

\* the step starts the envelope update op of a delete: the transaction is a listed
\* expense, its envelope's spent becomes max(0, shown spent - amount), no other envelope
\* changes and the transaction is still stored
SpentLowered(op) ==
    LET t == FindById(budgetData.transactions, op.id)
        shown == FindById(budgetData.envelopes, op.envelopeId)
    IN /\ t # NULL /\ shown # NULL
       /\ t[1].type = "expense" /\ t[1].envelopeId = <<op.envelopeId>>
       /\ budget_envelopes' =
              [budget_envelopes EXCEPT
                  ![op.envelopeId].spent = Num(Max(0, shown[1].spent - t[1].amount))]
       /\ budget_transactions' = budget_transactions

\* C15: delete transaction, for an expense tied to an envelope, first sets the
\* envelope's spent to max(0, spent - amount) and only in a later step removes the
\* transaction record; for an income transaction, or when the confirmation is
\* declined, no envelope is modified (and declined, nothing is written).
C15_DeleteLowersSpentThenRemoves ==
    [][ /\ \A t \in RemovedTransactions : TransactionRemoved(t)
        /\ \A op \in budgetOps' \ budgetOps : op.kind = "delete" => SpentLowered(op)
      ]_vars


\* the step adds the income transaction t: it is the only transaction added, its amount
\* is above 0 and is the number of a text typed, and no envelope is written or about to
\* be written
IncomeAppended(t) ==
    /\ budget_transactions' = Append(budget_transactions, t)
    /\ t.amount > 0
    /\ \E text \in IncomeAmounts : text # <<>> /\ NumberOfText(text) = Num(t.amount)
    /\ t.envelopeId = NULL
    /\ budget_envelopes' = budget_envelopes
    /\ budgetOps' = budgetOps

\* C16: add income writes only with a numeric amount > 0 (an empty, non-numeric, zero
\* or negative amount writes no transaction and leaves the ledger unchanged); with an
\* amount > 0 exactly one transaction of type income with that amount is appended and
\* no envelope's allocated or spent is modified.
C16_AddIncomeAppendsOneTransaction ==
    [][ \A t \in AddedTransactions : t.type = "income" => IncomeAppended(t) ]_vars

\* an income of 1000 was added: its transaction is stored, the envelopes are as they
\* were at the start, and the reloaded ledger lists the income with 1000 - 600 available
C16_Witness ==
    /\ \E i \in DOMAIN budget_transactions :
           /\ budget_transactions[i].type = "income"
           /\ budget_transactions[i].amount = 1000
    /\ budget_envelopes \in InitialEnvelopes
    /\ budgetOps = {} /\ budgetLoads = EmptyBag
    /\ Fresh
    /\ Len(budgetData.transactions) = 1
    /\ budgetData.totalAvailable = 1000 - 600


(***************************************************************************)
(* Claims about the dashboard's metrics (SpecDashboard, SpecBook)          *)
(***************************************************************************)

\* the contracts of the dashboard that match the period
PeriodMatching ==
    { i \in DOMAIN contracts : isInPeriod(EffectiveDate(contracts[i]), period, now, tz) }

\* the derived total of each contract of the dashboard
DerivedTotals == [i \in DOMAIN contracts |-> contractAmounts(contracts[i]).total]

\* the sum of the derived totals of the period-matching contracts with eventCompleted
CompletedRevenue ==
    TotalOver({ i \in PeriodMatching : contracts[i].eventCompleted }, DerivedTotals)

\* C17: currentMonthNetProfit = completedRevenue - expenses; profitMargin =
\* netProfit / completedRevenue x 100 when completedRevenue > 0 and 0 otherwise; and
\* completedRevenue, the sum of the derived totals of the period-matching contracts with
\* eventCompleted, is reported unchanged as currentMonthRevenue and currentCashBalance.
C17_ProfitAndMargin ==
    LET reported == metrics
        completedRevenue == CompletedRevenue
        netProfit == completedRevenue - reported.currentMonthExpenses
        margin == reported.profitMargin
    IN /\ reported.currentMonthRevenue = completedRevenue
       /\ reported.currentCashBalance = completedRevenue
       /\ reported.currentMonthNetProfit = netProfit
       /\ IF completedRevenue > 0
          THEN /\ margin.den > 0
               /\ margin.num * completedRevenue = netProfit * 100 * margin.den
          ELSE margin.num = 0 /\ margin.den # 0

\* completed contracts and an installment match the period: revenue, expenses and a
\* margin that is not 0
C17_Witness ==
    /\ CompletedRevenue > 0
    /\ metrics.currentMonthExpenses > 0
    /\ metrics.currentMonthNetProfit # 0
    /\ metrics.profitMargin.num # 0
    /\ \E i \in PeriodMatching : ~contracts[i].eventCompleted


\* the instant of a contract's effective date
Due(i) == NewDate(EffectiveDate(contracts[i])).t

\* the calendar day of an instant-less date string is the day written, that of a
\* timestamp the local day of its instant
CalendarDay(ds) ==
    IF ds.kind = "date" THEN DayNumber(ds.y, ds.m, ds.d) ELSE LocalDay(NewDate(ds).t, tz)

\* period-matching, not completed, and dated today or later
Qualifying ==
    { i \in PeriodMatching :
        /\ ~contracts[i].eventCompleted
        /\ NewDate(EffectiveDate(contracts[i])).valid
        /\ Due(i) >= LocalDay(now, tz) * 1440 - tz }

ClientNames == { ClientOf(contracts[i]) : i \in PeriodMatching }

\* the sum of the derived totals of the period-matching contracts of a client name
TotalOfClient(name) ==
    TotalOver({ i \in PeriodMatching : ClientOf(contracts[i]) = name }, DerivedTotals)

\* C19: topClients has at most 5 entries, sorted by totalValue descending; each entry's
\* totalValue is the sum of the derived totals of all period-matching contracts of that
\* client name, completed or not; and no client outside the list has a strictly larger
\* total than a client inside it.
C19_TopClients ==
    LET top == metrics.topClients
        listed == { top[k].clientName : k \in DOMAIN top }
    IN /\ Len(top) <= 5
       /\ Len(top) = IF Cardinality(ClientNames) < 5 THEN Cardinality(ClientNames) ELSE 5
       /\ \A k, l \in DOMAIN top : k < l => top[k].totalValue >= top[l].totalValue
       /\ \A k, l \in DOMAIN top : k # l => top[k].clientName # top[l].clientName
       /\ \A k \in DOMAIN top :
              /\ top[k].clientName \in ClientNames
              /\ top[k].totalValue = TotalOfClient(top[k].clientName)
       /\ \A name \in ClientNames \ listed :
              \A k \in DOMAIN top : TotalOfClient(name) <= top[k].totalValue

\* seven client names match the period, five are listed, a listed client has a completed
\* and an open contract, and a client left out has as much as the last one listed
C19_Witness ==
    LET top == metrics.topClients
        listed == { top[k].clientName : k \in DOMAIN top }
    IN /\ Cardinality(ClientNames) = 7
       /\ Len(top) = 5
       /\ "Cliente" \in ClientNames
       /\ \E k \in DOMAIN top :
              /\ \E i \in PeriodMatching :
                     ClientOf(contracts[i]) = top[k].clientName /\ contracts[i].eventCompleted
              /\ \E i \in PeriodMatching :
                     ClientOf(contracts[i]) = top[k].clientName /\ ~contracts[i].eventCompleted
       /\ top[1].totalValue > top[5].totalValue
       /\ \E name \in ClientNames \ listed : TotalOfClient(name) = top[5].totalValue


(***************************************************************************)
(* Claims about the two writes of an expense operation (SpecBudget)        *)
(***************************************************************************)

\* the step writes nothing to the store, leaves nothing of op pending and starts no load
NothingWrittenNorRetried(op) ==
    /\ budget_transactions' = budget_transactions
    /\ budget_envelopes' = budget_envelopes
    /\ budgetOps' = budgetOps \ {op}
    /\ budgetLoads' = budgetLoads

\* C20: the two writes of an expense operation are not atomic and not rolled back: when
\* add-expense's envelope update fails after its transaction was created, the
\* transaction stays and the envelope's spent is unchanged; when delete-transaction's
\* removal fails after the envelope update, the transaction stays and the envelope's
\* spent has already been lowered; in both cases the handler makes no compensating
\* write and no retry.
C20_ExpenseWritesNotAtomic ==
    [][ /\ \A op \in budgetOps' \ budgetOps :
               IF op.kind = "expense"
               THEN FindById(budget_transactions', op.id) # NULL
               ELSE budget_envelopes'[op.envelopeId].spent = Num(op.newSpent)
        /\ \A op \in budgetOps :
               /\ AddExpenseUpdateDone(op, FALSE) => NothingWrittenNorRetried(op)
               /\ DeleteDocDone(op, FALSE) => NothingWrittenNorRetried(op)
      ]_vars

\* the removal of an expense of 200 failed after the envelope's spent was lowered from
\* 800 to 600: nothing is pending, the transaction is still stored with 600 spent, and
\* the ledger, not reloaded, still shows 800
C20_Witness ==
    \E i \in DOMAIN expenseLog :
        LET r == expenseLog[i]
            shown == FindById(budgetData.envelopes, r.envelopeId)
        IN /\ r.spentAfter = Num(800) /\ r.restored = Num(600)
           /\ FindById(budget_transactions, r.id) # NULL
           /\ budget_envelopes[r.envelopeId].spent = Num(600)
           /\ budgetOps = {} /\ budgetLoads = EmptyBag
           /\ shown # NULL /\ shown[1].spent = 800
           /\ FindById(budgetData.transactions, r.id) # NULL


(***************************************************************************)
(* Claims about the monthly rows (SpecDashboard, SpecBook)                  *)
(***************************************************************************)

\* the period-matching contracts whose effective date falls in local month m (0..11)
ContractsOfMonth(m) ==
    { i \in PeriodMatching : GetMonth(NewDate(EffectiveDate(contracts[i])).t, tz) = m }

\* the period-matching installments whose due date falls in local month m
InstallmentsOfMonth(m) ==
    { i \in DOMAIN investmentInstallments :
        /\ isInPeriod(investmentInstallments[i].dueDate, period, now, tz)
        /\ GetMonth(NewDate(investmentInstallments[i].dueDate).t, tz) = m }

InstallmentAmounts ==
    [i \in DOMAIN investmentInstallments |-> NumOrZero(investmentInstallments[i].amount)]

\* the contract's effective date is today's local midnight or later
TodayOrLater(i) ==
    NewDate(EffectiveDate(contracts[i])).t >= SetHoursStartOfDay(now, tz)

\* the buckets of row m as the rules give them
BucketsOfMonth(m) ==
    LET here == ContractsOfMonth(m)
        earned == TotalOver({ i \in here : contracts[i].eventCompleted }, DerivedTotals)
        expenses == TotalOver(InstallmentsOfMonth(m), InstallmentAmounts)
    IN [income |-> TotalOver(here, DerivedTotals),
        earned |-> earned,
        forecast |-> TotalOver({ i \in here : ~contracts[i].eventCompleted /\ TodayOrLater(i) },
                               DerivedTotals),
        expenses |-> expenses,
        profit |-> earned - expenses]

\* C22: in every monthly row a period-matching completed contract adds its derived total
\* to income, earned and profit of its month; a non-completed one adds to income and,
\* only if its effective date is today or later, to forecast; a period-matching
\* installment adds its amount to expenses and subtracts it from profit.  Hence for every
\* month profit = earned - expenses and earned + forecast <= income.
C22_MonthlyBucketRules ==
    LET rows == metrics.monthlyData
    IN \A m \in 0..11 :
          LET row == rows[m + 1]
              rules == BucketsOfMonth(m)
          IN /\ row.income = rules.income
             /\ row.earned = rules.earned
             /\ row.forecast = rules.forecast
             /\ row.expenses = rules.expenses
             /\ row.profit = rules.profit
             /\ row.profit = row.earned - row.expenses
             /\ row.earned + row.forecast <= row.income


\* the local years of the effective dates of the period-matching records
RecordYears ==
    { GetFullYear(NewDate(EffectiveDate(contracts[i])).t, tz) : i \in PeriodMatching }
    \cup { GetFullYear(NewDate(investmentInstallments[i].dueDate).t, tz) :
             i \in UNION { InstallmentsOfMonth(m) : m \in 0..11 } }

\* what the period-matching contracts of local year y and month m add up to
IncomeOfYearMonth(y, m) ==
    TotalOver({ i \in ContractsOfMonth(m) :
                  GetFullYear(NewDate(EffectiveDate(contracts[i])).t, tz) = y },
              DerivedTotals)

\* what the period-matching installments of local year y and month m add up to
ExpensesOfYearMonth(y, m) ==
    TotalOver({ i \in InstallmentsOfMonth(m) :
                  GetFullYear(NewDate(investmentInstallments[i].dueDate).t, tz) = y },
              InstallmentAmounts)

\* C25: the month row a contract or installment lands in is the calendar month of its
\* effective date regardless of that date's year: the row of month m holds, over all the
\* years of the period-matching records, what those of month m of each year add up to,
\* so that records of different years with the same month accumulate in one of the 12
\* rows built for the current year.
C25_RowsAccumulateAcrossYears ==
    LET rows == metrics.monthlyData
        years == RecordYears
    IN /\ Len(rows) = 12
       /\ \A m \in 0..11 :
             /\ rows[m + 1].income =
                   TotalOver(years, [y \in years |-> IncomeOfYearMonth(y, m)])
             /\ rows[m + 1].expenses =
                   TotalOver(years, [y \in years |-> ExpensesOfYearMonth(y, m)])

\* under period 'all', January holds contracts and installments of 2024 and of 2025
C25_Witness ==
    /\ period.type = "all"
    /\ IncomeOfYearMonth(2024, 0) > 0 /\ IncomeOfYearMonth(2025, 0) > 0
    /\ ExpensesOfYearMonth(2024, 0) > 0 /\ ExpensesOfYearMonth(2025, 0) > 0
    /\ metrics.monthlyData[1].income = IncomeOfYearMonth(2024, 0) + IncomeOfYearMonth(2025, 0)
    /\ metrics.monthlyData[1].expenses = Units(140)


\* the sum of bucket f over the rows
SumOfRows(rows, f) == TotalOver(DOMAIN rows, [i \in DOMAIN rows |-> rows[i][f]])

\* C28: the dashboard KPIs agree with the monthly rows computed from the same inputs and
\* period: the sum of earned over the 12 rows equals currentMonthRevenue, the sum of
\* expenses equals currentMonthExpenses, and the sum of profit equals
\* currentMonthNetProfit.
C28_KpisAgreeWithRows ==
    LET reported == metrics
        rows == reported.monthlyData
    IN /\ Len(rows) = 12
       /\ SumOfRows(rows, "earned") = reported.currentMonthRevenue
       /\ SumOfRows(rows, "expenses") = reported.currentMonthExpenses
       /\ SumOfRows(rows, "profit") = reported.currentMonthNetProfit

\* revenue in two months, an installment counted and one left out by the period
C28_Witness ==
    LET reported == metrics
        rows == reported.monthlyData
    IN /\ \E i, j \in 1..12 : i # j /\ rows[i].earned > 0 /\ rows[j].earned > 0
       /\ reported.currentMonthExpenses > 0
       /\ reported.currentMonthNetProfit # 0
       /\ \E i \in DOMAIN contracts : i \notin PeriodMatching
       /\ \E i \in PeriodMatching : ~contracts[i].eventCompleted


(***************************************************************************)
(* Claims about the duplicated helpers (SpecCopies)                        *)
(***************************************************************************)

\* C29: the three copies of the amount derivation agree: for every contract record the
\* calendar's computeAmounts.totalAmount, the dashboard's contractAmounts.total and
\* computeMonthlyData's inner contractAmounts.total are equal, as are their services,
\* storeTotal and travel components; likewise the two copies of isInPeriod return the
\* same boolean for every date and period.
C29_CopiesAgree ==
    /\ (calcA # NONE /\ dashA # NONE) =>
          /\ calcA.totalAmount = dashA.total
          /\ calcA.servicesTotal = dashA.services
          /\ calcA.storeTotal = dashA.storeTotal
          /\ calcA.travel = dashA.travel
    /\ (dashA # NONE /\ monA # NONE) =>
          /\ monA.total = dashA.total
          /\ monA.services = dashA.services
          /\ monA.storeTotal = dashA.storeTotal
          /\ monA.travel = dashA.travel
    /\ (inPeriodD # NONE /\ inPeriodM # NONE) => inPeriodD.value = inPeriodM.value

\* a contract with service lines, store items and a travel fee derived by the three
\* copies, and a date on the last day of a custom range accepted by both filters
C29_Witness ==
    /\ calcA # NONE /\ dashA # NONE /\ monA # NONE
    /\ dashA.services > 0 /\ dashA.storeTotal > 0 /\ dashA.travel > 0
    /\ dashA.total = dashA.services + dashA.storeTotal + dashA.travel
    /\ inPeriodD # NONE /\ inPeriodM # NONE
    /\ period.type = "custom" /\ period.end = DateStr(2024, 1, 31)
    /\ pDate = IsoStr(2024, 1, 31, 15)
    /\ inPeriodD.value


(***************************************************************************)
(* Claims about the calendar's load and navigation (SpecCalendar)          *)
(***************************************************************************)

\* the service line items of a contract: the explicit services, else the cart items of
\* the form snapshot
ServiceLines(c) == IF c.services # <<>> THEN c.services ELSE c.cartItems

\* the events of a list that carry the id of contract c, in the order of the list
EventsOfContract(evs, c) == SelectSeq(evs, LAMBDA ev : ev.id[1] = c.id)

SharesPaymentAndStatus(ev, c) ==
    /\ ev.paymentMethod = c.paymentMethod
    /\ ev.depositPaid = c.depositPaid
    /\ ev.finalPaymentPaid = c.finalPaymentPaid
    /\ ev.eventCompleted = c.eventCompleted
    /\ ev.status = c.status

\* the value of a per-index snapshot field when present, else the parent's
PerIndexOrParent(perIndex, index, absent, parent) ==
    IF index < Len(perIndex) /\ perIndex[index + 1] # absent
    THEN perIndex[index + 1]
    ELSE parent

ExpandedAsClaimed(evs, c) ==
    LET n == Len(ServiceLines(c))
        own == EventsOfContract(evs, c)
    IN IF n >= 1
       THEN /\ Len(own) = n
            /\ \A index \in 0 .. (n - 1) :
                  LET ev == own[index + 1]
                  IN /\ ev.id = <<c.id, index>>
                     /\ ev.eventDate = PerIndexOrParent(c.fsDates, index, NoDate, c.eventDate)
                     /\ ev.eventTime = PerIndexOrParent(c.fsTimes, index, <<>>, c.eventTime)
                     /\ ev.eventLocation =
                           PerIndexOrParent(c.fsLocations, index, "", c.eventLocation)
                     /\ SharesPaymentAndStatus(ev, c)
       ELSE /\ Len(own) = 1
            /\ own[1].id = <<c.id>>
            /\ own[1].eventDate = c.eventDate
            /\ own[1].eventTime = c.eventTime
            /\ own[1].eventLocation = c.eventLocation
            /\ SharesPaymentAndStatus(own[1], c)

\* C23: loading the calendar expands each contract with N >= 1 service line items
\* (explicit services, else snapshot cart items) into exactly N events with ids
\* '<contractId>__<index>' for index 0..N-1, each taking date, time and location from
\* the per-index snapshot fields when present and otherwise from the parent, and all
\* sharing the parent's payment and status fields; a contract with no service lines
\* yields exactly one event with the contract's own id.  Checked on every step in which a
\* load ends with the documents read.
C23_LoadExpandsServiceLines ==
    [][ (calLoads' < calLoads /\ calLoaded' = "resolved") =>
          /\ \A k \in DOMAIN contractsCollection :
                ExpandedAsClaimed(events', contractsCollection[k])
          /\ \A i \in DOMAIN events' :
                \E k \in DOMAIN contractsCollection :
                    events'[i].id[1] = contractsCollection[k].id ]_vars

\* a loaded list with the two events of a contract with two services, the second with
\* its own location and the first with its own time, and the one event of a contract
\* without service lines
C23_Witness ==
    /\ calLoaded = "resolved" /\ calLoads = 0
    /\ Len(events) = 3
    /\ \E c \in {1, 2} :
          /\ \E i, j \in DOMAIN events :
                /\ events[i].id = <<c, 0>> /\ events[j].id = <<c, 1>>
                /\ events[i].eventLocation = "Parque" /\ events[j].eventLocation = "Estudio"
                /\ events[i].eventTime = Time_0900 /\ events[j].eventTime = <<>>
                /\ events[i].status = "confirmed" /\ events[j].status = "confirmed"
          /\ \E i \in DOMAIN events : events[i].id = <<3 - c>>


\* C26: after any sequence of calendar navigation actions (header previous/next,
\* mini-calendar previous/next, 'Hoy'), the month whose day cells are displayed
\* (current.y, current.m) equals the month used to filter events (filterYear,
\* filterMonth), and both month indices stay within 0..11.
C26_DisplayedMonthIsFilterMonth ==
    /\ current.y = filterYear
    /\ current.m = filterMonth
    /\ current.m \in 0 .. 11
    /\ filterMonth \in 0 .. 11


(***************************************************************************)
(* Claims about the stored spent (SpecBudgetOverspent)                     *)
(***************************************************************************)

\* C27: starting from envelopes with spent >= 0, after any sequence of add-income,
\* add-expense and delete-transaction operations (including deletes of transactions
\* whose amount exceeds the envelope's current spent), every envelope's stored spent
\* is >= 0.
C27_StoredSpentNonNegative ==
    \A e \in EnvIds :
        budget_envelopes[e].spent # NULL => budget_envelopes[e].spent[1] >= 0

\* the expense of 200 being deleted from an envelope whose spent was 0: the envelope is
\* written with 0 and the removal is awaited
C27_Witness ==
    /\ nextTxnId = 1
    /\ budget_envelopes["e2"].spent = Num(0)
    /\ \E op \in budgetOps :
          op.kind = "delete" /\ op.id = UnbookedExpense.id /\ op.envelopeId = "e2"


(***************************************************************************)
(* Claims about the loads of the views (SpecViews)                         *)
(***************************************************************************)

\* a loadBudgetData call passes its read of the envelopes in this step
EnvelopesReadEnds(load) ==
    /\ load.stage = "transactions"
    /\ CopiesIn(load, budgetLoads') > CopiesIn(load, budgetLoads)

\* a loadBudgetData call ends in this step
BudgetLoadEnds == BagCardinality(budgetLoads') < BagCardinality(budgetLoads)

\* C21: a failed read never propagates and never leaves a view stuck loading.  In
\* loadBudgetData the envelope list is what the store holds or, the read having failed,
\* empty, and the transactions are what the store holds or empty, each whatever became of
\* the other read; the calendar's load sets the events to the expansion of the documents
\* read or, the read having failed, to the empty list; a dashboard read that fails ends
\* the effect with what was loaded before it; every load that ends sets its loading flag
\* to false, and a loading flag that is true eventually becomes false.
C21_FailedReadsEndLoading ==
    /\ [][ /\ \A load \in BagToSet(budgetLoads') :
                 EnvelopesReadEnds(load) =>
                     load.envelopes \in {ReadEnvelopes(budget_envelopes), <<>>}
           /\ BudgetLoadEnds =>
                 /\ loading' = FALSE
                 /\ \E load \in BagToSet(budgetLoads) :
                       /\ load.stage = "transactions"
                       /\ budgetData'.envelopes = load.envelopes
                 /\ budgetData'.transactions \in {budget_transactions, <<>>}
           /\ calLoads' < calLoads =>
                 /\ calLoading' = FALSE
                 /\ calLoaded' \in {"resolved", "rejected"}
                 /\ calLoaded' = "rejected" => events' = <<>>
                 /\ calLoaded' = "resolved" => events' = FlatMapExpand(contractsCollection)
           /\ (dashLoad.stage # "done" /\ dashLoad'.stage = "done") =>
                 /\ dashLoad'.loading = FALSE
                 /\ contracts' \in {contracts, contractsCollection}
         ]_vars
    /\ loading ~> ~loading
    /\ calLoading ~> ~calLoading
    /\ dashLoad.loading ~> ~dashLoad.loading

\* the planner shows the transactions with no envelopes, the calendar's load of a stored
\* contract failed, the dashboard kept the contracts it read
\* before a later read failed, and nothing is loading
C21_Witness ==
    /\ budgetData.envelopes = <<>> /\ budgetData.transactions = <<EarlierExpense>>
    /\ ~loading /\ budgetLoads = EmptyBag
    /\ contractsCollection # <<>>
    /\ calLoaded = "rejected" /\ events = <<>> /\ ~calLoading /\ calLoads = 0
    /\ dashLoad = [loading |-> FALSE, stage |-> "done"]
    /\ contracts = contractsCollection /\ investmentInstallments = <<>>


(***************************************************************************)
(* Claims about the photo-sharing page (SpecPhotoPage)                     *)
(***************************************************************************)

\* the contract the route names is not in the store, or the route names none
ContractAbsent == page.contractId = NULL \/ DocsNamed(page.contractId[1]) = <<>>

AlertedAndLeft == Len(page.alerts) = 1 /\ page.navigated = <<"/">>

\* C24: on the photo-sharing page, when no share token is given and the referenced
\* contract is absent (or no contract id is given, or the lookup fails), the page shows
\* an alert and navigates to '/', never renders the admin view, and loading ends false;
\* when a share token is given, no contract lookup happens and the admin view is never
\* rendered.  A lookup that failed is one that ended without a contract set.
C24_PhotoPageGuards ==
    /\ (page.shareToken = NULL /\ ContractAbsent) => RenderedView # "admin"
    /\ (page.shareToken = NULL /\ page.pc = "done" /\ (ContractAbsent \/ page.contract = NULL))
          => /\ AlertedAndLeft
             /\ RenderedView \notin {"admin", "loading"}
             /\ ~page.loading
    /\ page.shareToken # NULL
          => /\ page.lookups = 0
             /\ RenderedView # "admin"
             /\ page.pc = "done" => (~page.loading /\ page.alerts = <<>>)

\* a lookup of a contract that is not stored has ended, next to a stored one
C24_Witness ==
    /\ page.shareToken = NULL /\ page.contractId = <<2>>
    /\ Len(contractsCollection) = 1
    /\ page.pc = "done" /\ page.lookups = 1
    /\ page.alerts = <<"Contrato no encontrado">>
    /\ page.navigated = <<"/">> /\ ~page.loading


(***************************************************************************)
(* Claims about deleting an event (SpecCalendarDelete)                     *)
(***************************************************************************)

\* the events of a list whose base contract id is b
EventsOfBase(evs, b) == SelectSeq(evs, LAMBDA e : e.id[1] = b)

Stored(coll, b) == \E k \in DOMAIN coll : coll[k].id = b

\* a deleteDoc of contract b ends in this step
DeleteEnds(b) == CopiesIn(b, calDeletes') < CopiesIn(b, calDeletes)

\* C30: after deleteEvent succeeds for an event, every event sharing its base contract
\* id is removed from the calendar's event list, and once all reloads triggered by the
\* 'contractDeleted' and 'contractsUpdated' signals (the immediate one and the delayed
\* one) have completed in any order, no event of that contract is in the list; if the
\* remote delete fails, the event list is unchanged and no 'contractDeleted' signal is
\* published.  A delete that removed the document succeeded; one that ends with the
\* document still stored failed.
C30_DeleteRemovesContractEvents ==
    /\ [][ \A b \in BagToSet(calDeletes) :
              /\ (DeleteEnds(b) /\ Stored(contractsCollection, b)
                     /\ ~Stored(contractsCollection', b))
                    => /\ EventsOfBase(events', b) = <<>>
                       /\ CopiesIn(b, published') = CopiesIn(b, published) + 1
                       /\ calTimers' = calTimers + 1
                       /\ calLoads' = calLoads + 1
              /\ (DeleteEnds(b) /\ Stored(contractsCollection', b))
                    => /\ events' = events
                       /\ published' = published
                       /\ calTimers' = calTimers /\ calLoads' = calLoads
         ]_vars
    /\ [] (\A b \in BagToSet(published) : EventsOfBase(events, b) = <<>>)

\* the first contract was deleted, both reloads have completed and the two events of
\* the other contract are shown
C30_Witness ==
    /\ BagToSet(published) = {1}
    /\ calTimers = 0 /\ calLoads = 0 /\ calDeletes = EmptyBag
    /\ calLoaded = "resolved"
    /\ Len(contractsCollection) = 1
    /\ Len(contractsCollection[1].services) = 2
    /\ Len(events) = 2
    /\ \A i \in DOMAIN events : events[i].id[1] = 2

=============================================================================
